---------------------------- MODULE Spec2Model ----------------------------
(***************************************************************************)
(* Flight-guidance directors of the CJ4 autopilot.                         *)
(*                                                                         *)
(*   WT_VnavAutopilot (src/unnamed/part_000): the vertical path director.  *)
(*   LNavDirector (.../Autopilot/LNavDirector.js): the lateral director.   *)
(*                                                                         *)
(* Each method of the two classes is an operator from a "world" record to  *)
(* a world record.  A world holds the director's own fields (ap, lnav),    *)
(* the simulator variables it writes and reads back (sv, lsv), for the     *)
(* lateral director the flight plan manager's plan (fpm), what it has      *)
(* emitted since the operation began (out: commands, events, every         *)
(* simulator variable it set) and the environment it reads (env).  An      *)
(* action applies one public operation, whole, to the current world.       *)
(*                                                                         *)
(* Units: altitudes in feet, speeds in knots, vertical speeds in ft/min,   *)
(* distances in tenths of a nautical mile (1 NM = 10).                     *)
(***************************************************************************)
EXTENDS Integers, Sequences, FiniteSets, TLC

VARIABLES
    ap,       \* WT_VnavAutopilot: the fields set in its constructor
    sv,       \* the L: simulator variables WT_VnavAutopilot writes and reads back
    newPath,  \* this._vnav._newPath: raised upstream, cleared by the director
    last,     \* the last vertical operation: its name and the branches it took
    lnav,     \* LNavDirector: the fields set in its constructor
    fpm,      \* the flight plan manager's plan 0, its active index and version
    lsv,      \* L:WT_CJ4_IN_DISCONTINUITY
    llast     \* the last lateral operation: its name and what it did

vvars == <<ap, sv, newPath, last>>

lvars == <<lnav, fpm, lsv, llast>>

vars == <<ap, sv, newPath, last, lnav, fpm, lsv, llast>>

(***************************************************************************)
(* JavaScript values                                                       *)
(***************************************************************************)

\* `undefined` in a numeric field.  Every relational comparison with it is
\* false, and Math.round(undefined) is NaN, which equals nothing.
Undefined == -1

JsGt(a, b) == a # Undefined /\ b # Undefined /\ a > b
\* Math.round(a) == Math.round(b) on integral feet
JsRoundEq(a, b) == a # Undefined /\ b # Undefined /\ a = b

\* A number kept exactly, as numerator n over denominator d >= 0.  Rat(0, 0) is
\* `undefined` or NaN; Rat(n, 0) with n # 0 is a division by zero, a value of
\* the sign of n beyond every vertical speed.
Rat(n, d) == [n |-> n, d |-> d]
RatZero == Rat(0, 1)
RatUndefined == Rat(0, 0)
RatIsZero(r) == r.d # 0 /\ r.n = 0
\* x < r for an integer x; false when r is undefined or NaN
IntLtRat(x, r) == IF r.d = 0 THEN r.n > 0 ELSE x * r.d < r.n

Min(a, b) == IF a < b THEN a ELSE b
Max(a, b) == IF a > b THEN a ELSE b
\* Math.ceil(a / b) for b > 0
CeilDiv(a, b) == -((-a) \div b)

(***************************************************************************)
(* Vertical speed arithmetic                                               *)
(***************************************************************************)

\* 101.2686667 * Math.tan(fpa * Math.PI / 180), in 1/10000 ft/min per knot,
\* for whole flight-path angles of 0..6 degrees.
VsPerKnot(fpa) ==
    CASE fpa = 0 -> 0
      [] fpa = 1 -> 17677
      [] fpa = 2 -> 35364
      [] fpa = 3 -> 53073
      [] fpa = 4 -> 70814
      [] fpa = 5 -> 88599
      [] fpa = 6 -> 106438

\* desiredVerticalSpeed without the minus sign
desiredVerticalSpeed_climb(groundSpeed, fpa) == VsPerKnot(fpa) * groundSpeed

\* -101.2686667 * groundSpeed * Math.tan(fpa * (Math.PI / 180)), in 1/10000 ft/min
desiredVerticalSpeed(groundSpeed, fpa) == -(VsPerKnot(fpa) * groundSpeed)

\* requiredFpa = atan(altitudeDifference / (distance * 6076.12)) in degrees, then
\* -101.2686667 * groundSpeed * tan(requiredFpa):  tan undoes atan and
\* 101.2686667 is 6076.12 / 60, so the result is
\* -groundSpeed * altitudeDifference / (60 * distance NM), kept exactly.
requiredVs(altitudeDifference, distance, groundSpeed) ==
    Rat(-(groundSpeed * altitudeDifference), 6 * distance)

(***************************************************************************)
(* Writes to the outside                                                   *)
(***************************************************************************)

\* alt, vs, events: the calls made, in order.  set: the last value given to each
\* variable set.  slotRuns: the calls of vnavAltSlotRequest.  branch, arm: the
\* branch update() took and the branch of its arming step.  inhibited: execute()
\* returned at line 197.
NoOut ==
    [alt |-> <<>>, vs |-> <<>>, events |-> <<>>, set |-> <<>>, slotRuns |-> 0,
     branch |-> "none", arm |-> "none", inhibited |-> FALSE]

\* SimVar.SetSimVarValue("L:...", ..., v)
SetSimVar(w, name, v) ==
    [w EXCEPT !.sv = IF name \in DOMAIN @ THEN [@ EXCEPT ![name] = v] ELSE @,
              !.out.set = (name :> v) @@ @]


\* Coherent.call("AP_ALT_VAR_SET_ENGLISH", slot, value, force)
AltVarSet(w, slot, value, force) ==
    [w EXCEPT !.out.alt = Append(@, <<slot, value, force>>)]

\* Coherent.call("AP_VS_VAR_SET_ENGLISH", 2, value)
VsVarSet(w, value) == [w EXCEPT !.out.vs = Append(@, value)]

\* this._navModeSelector.queueEvent(e) and K: events
QueueEvent(w, e) == [w EXCEPT !.out.events = Append(@, e)]

(***************************************************************************)
(* WT_VnavAutopilot                                                        *)
(***************************************************************************)

cancelConstraint(w) ==
    QueueEvent([w EXCEPT !.ap.vnavAltSlot = 1, !.ap.obeyingConstraint = FALSE],
               "VNAV_REQUEST_SLOT_1")

vnavAltSlotRequest(w) ==
    LET altSlot == w.env.currentAltSlotIndex
        w1 == [w EXCEPT !.out.slotRuns = @ + 1]
    IN  IF w.ap.vnavAltSlot = 1 /\ altSlot = 2 THEN QueueEvent(w1, "VNAV_REQUEST_SLOT_1")
        ELSE IF w.ap.vnavAltSlot = 2 /\ altSlot = 1 THEN QueueEvent(w1, "VNAV_REQUEST_SLOT_2")
        ELSE w1

recalculate(w) ==
    vnavAltSlotRequest([w EXCEPT !.ap.pathArm = FALSE,
                                 !.ap.pathArmAbove = FALSE,
                                 !.ap.pathActive = FALSE,
                                 !.ap.pathActivate = FALSE])

deactivate(w) ==
    LET w1 == [w EXCEPT !.ap.constraintExists = FALSE,
                        !.ap.pathArm = FALSE,
                        !.ap.pathArmAbove = FALSE,
                        !.ap.pathActive = FALSE,
                        !.ap.pathActivate = FALSE,
                        !.ap.pathArmFired = FALSE]
        w2 == SetSimVar(w1, "isConstraint", 0)
        w3 == SetSimVar(w2, "snowflake", 0)
        w4 == SetSimVar(w3, "pathStatus", 0)
    IN  SetSimVar(w4, "donut", RatZero)

\* failed() without its write of the path status
failed_keepStatus(w) ==
    LET w1 == [w EXCEPT !.ap.constraintExists = FALSE,
                        !.ap.pathArm = FALSE,
                        !.ap.pathActive = FALSE,
                        !.ap.pathActivate = FALSE,
                        !.ap.pathArmFired = FALSE]
        w2 == AltVarSet(w1, 1, w.env.altitude, TRUE)
        w3 == SetSimVar(w2, "isConstraint", 0)
        w4 == SetSimVar(w3, "snowflake", 0)
    IN  SetSimVar(w4, "donut", RatZero)

\* lines 367-379: unlike deactivate() it leaves _pathArmAbove alone
failed(w) ==
    LET w1 == [w EXCEPT !.ap.constraintExists = FALSE,
                        !.ap.pathArm = FALSE,
                        !.ap.pathActive = FALSE,
                        !.ap.pathActivate = FALSE,
                        !.ap.pathArmFired = FALSE]
        w2 == AltVarSet(w1, 1, w.env.altitude, TRUE)
        w3 == SetSimVar(w2, "isConstraint", 0)
        w4 == SetSimVar(w3, "snowflake", 0)
        w5 == SetSimVar(w4, "pathStatus", 0)
    IN  SetSimVar(w5, "donut", RatZero)

setTargetAltitude(w, targetAltitude) ==
    IF w.env.lateralAPPR
    THEN SetSimVar(AltVarSet(w, 2, targetAltitude - 500, FALSE), "isConstraint", 0)
    ELSE LET isClimb == w.env.segmentDeparture
             selectedAltitude == w.env.altLock1
             updatedTargetAltitude ==
                 IF isClimb THEN Min(targetAltitude, selectedAltitude)
                            ELSE Max(targetAltitude, selectedAltitude)
         IN  SetSimVar(AltVarSet(w, 2, updatedTargetAltitude, TRUE), "isConstraint", 1)

setSnowflake(w) ==
    IF w.env.pathCalculating /\ w.env.altDeviation < 1001 /\ w.env.altDeviation > -1001
    THEN IF w.sv.snowflake # 1 THEN SetSimVar(w, "snowflake", 1) ELSE w
    ELSE IF w.sv.snowflake = 1 THEN SetSimVar(w, "snowflake", 0) ELSE w

\* the flight-path angle flown while the path is active
activeFPA(w) ==
    IF w.env.lateralAPPR /\ w.env.gpExists THEN w.env.gpAngle ELSE w.env.desiredFPA

setDonut(w) ==
    IF w.ap.pathActive
    THEN SetSimVar(w, "donut",
                   Rat(desiredVerticalSpeed(w.env.groundSpeed, activeFPA(w)), 10000))
    ELSE IF w.env.vnavConstraintWaypoint /\ w.env.activeWaypointDist # 0
            /\ w.env.distanceToTod < 500
    THEN LET constraintDistance == w.env.constraintCumDist
             currentDistance == w.env.activeCumDist - w.env.activeWaypointDist
             distanceToConstraint == constraintDistance - currentDistance
             altitudeDifference == w.ap.indicatedAltitude - w.env.vnavConstraintAltitude
         IN  SetSimVar(w, "donut",
                       requiredVs(altitudeDifference, distanceToConstraint,
                                  w.env.groundSpeed))
    ELSE SetSimVar(w, "donut", RatZero)

checkPreselector(w) ==
    \* approachingTodDistance = 0.0125 * ground speed, in NM
    IF ~w.ap.pathArm /\ ~w.ap.pathArmFired
       /\ 8 * w.env.distanceToTod < w.env.groundSpeed /\ w.env.distanceToTod > 0
    THEN IF w.sv.todAlert # 1
         THEN [SetSimVar(w, "todAlert", 1) EXCEPT !.ap.pathArmFired = TRUE]
         ELSE w
    ELSE w

B2N(b) == IF b THEN 1 ELSE 0

monitorValues(w) ==
    LET w1 == SetSimVar(w,  "monConstraintExists", B2N(w.ap.constraintExists))
        w2 == SetSimVar(w1, "monPathArm", B2N(w.ap.pathArm))
        w3 == SetSimVar(w2, "monPathActive", B2N(w.ap.pathActive))
        w4 == SetSimVar(w3, "monInhibitExecute", B2N(w.ap.inhibitExecute))
    IN  SetSimVar(w4, "monObeyingConstraint", B2N(w.ap.obeyingConstraint))

\* lines 44-52: `if (currentVerticalArmedStates[0] = VerticalNavModeState.GP)` is an
\* assignment; VerticalNavModeState.GP is a non-empty string, so the test is
\* always truthy, the mode selector's first armed state is overwritten, and the
\* else branch (inhibit, status 0) is never taken.
interceptInhibit(w) ==
    IF w.ap.pathActive /\ w.env.currentVerticalActiveState = "ALTC" /\ ~w.ap.inhibitExecute
    THEN SetSimVar([w EXCEPT !.out.set = ("currentVerticalArmedStates0" :> "GP") @@ @,
                             !.ap.inhibitExecute = FALSE],
                   "pathStatus", 1)
    ELSE w

\* lines 55-66
constraintData(w) ==
    LET w1 == [w EXCEPT !.ap.indicatedAltitude = w.env.indicatedAltitude]
    IN  IF w.env.vnavConstraintType
        THEN [w1 EXCEPT !.ap.constraintExists = TRUE]
        ELSE LET w2 == [w1 EXCEPT !.ap.constraintExists = FALSE]
             IN  IF w.ap.obeyingConstraint THEN cancelConstraint(w2) ELSE w2

\* newPathInhibits that asks for a new target more than 100 ft below the held one
newPathInhibits_byMoreThan100(w) ==
    /\ JsGt(w.ap.vnavTargetAltitude, w.env.vnavTargetAltitude + 100)
    /\ w.ap.vnavTargetAltitude # Undefined
    /\ w.ap.indicatedAltitude > w.ap.vnavTargetAltitude + 100
    /\ w.env.altDeviation < -100

\* lines 74-75: the new path is lower than the held target while the aircraft is
\* still more than 100 ft above the held target
newPathInhibits(w) ==
    /\ JsGt(w.ap.vnavTargetAltitude, w.env.vnavTargetAltitude)
    /\ w.ap.vnavTargetAltitude # Undefined
    /\ w.ap.indicatedAltitude > w.ap.vnavTargetAltitude + 100
    /\ w.env.altDeviation < -100

\* lines 78-85
acceptNewPath(w) ==
    [w EXCEPT !.ap.inhibitExecute = FALSE,
              !.ap.pathArm = FALSE,
              !.ap.pathArmAbove = FALSE,
              !.ap.pathActive = FALSE,
              !.ap.pathActivate = FALSE,
              !.env.newPath = FALSE]

\* canDescend without the approach alternative
canDescend_noApproach(w) == w.env.selectedAlt1 + 75 < w.ap.indicatedAltitude

\* lines 100 and 106: the selected altitude is below the aircraft, or an approach
\* with a glide path is being flown
canDescend(w) ==
    \/ w.env.selectedAlt1 + 75 < w.ap.indicatedAltitude
    \/ (w.env.lateralAPPR /\ w.env.gpExists)

\* canPathArm whose arm-from-below branch leaves _pathArmAbove as it was
canPathArm_keepAbove(w) ==
    IF w.ap.pathActive THEN w
    ELSE LET verticalMode == w.env.currentVerticalActiveState
             currentAlt3 == w.env.altLock3
         IN  IF verticalMode \in {"ALTC", "ALT"}
                /\ JsRoundEq(currentAlt3, w.env.vnavTargetAltitude)
             THEN [w EXCEPT !.ap.pathArm = FALSE, !.ap.pathArmAbove = FALSE,
                            !.out.arm = "hold"]
             ELSE IF w.env.altDeviation <= 1000 /\ w.env.distanceToTod < 200
                     /\ w.env.distanceToTod >= 0 /\ canDescend(w)
             THEN [w EXCEPT !.ap.pathArm = TRUE, !.out.arm = "below"]
             ELSE IF w.env.altDeviation > 1000
                     /\ w.env.topOfDescent > w.env.vnavTargetDistance /\ canDescend(w)
             THEN [w EXCEPT !.ap.pathArmAbove = TRUE, !.ap.pathArm = FALSE,
                            !.out.arm = "above"]
             ELSE [w EXCEPT !.ap.pathArm = FALSE, !.ap.pathArmAbove = FALSE,
                            !.out.arm = "clear"]

\* lines 93-94: already at, or capturing, the desired restriction
noArm(w) ==
    /\ w.env.currentVerticalActiveState \in {"ALTC", "ALT"}
    /\ JsRoundEq(w.env.altLock3, w.env.vnavTargetAltitude)

\* lines 54, 69, 73-86, 89: the cycle gets to the arming step with the path not
\* active
reachesArming(w) ==
    /\ w.env.vnavCalculating
    /\ w.env.pathCalculating
    /\ ~(w.env.newPath /\ newPathInhibits(constraintData(interceptInhibit(w))))
    /\ (w.env.newPath \/ ~w.ap.pathActive)

\* lines 89-115
canPathArm(w) ==
    IF w.ap.pathActive THEN w
    ELSE LET verticalMode == w.env.currentVerticalActiveState
             currentAlt3 == w.env.altLock3
         IN  IF verticalMode \in {"ALTC", "ALT"}
                /\ JsRoundEq(currentAlt3, w.env.vnavTargetAltitude)
             THEN [w EXCEPT !.ap.pathArm = FALSE, !.ap.pathArmAbove = FALSE,
                            !.out.arm = "hold"]
             ELSE IF w.env.altDeviation <= 1000 /\ w.env.distanceToTod < 200
                     /\ w.env.distanceToTod >= 0 /\ canDescend(w)
             THEN [w EXCEPT !.ap.pathArm = TRUE, !.ap.pathArmAbove = FALSE,
                            !.out.arm = "below"]
             ELSE IF w.env.altDeviation > 1000
                     /\ w.env.topOfDescent > w.env.vnavTargetDistance /\ canDescend(w)
             THEN [w EXCEPT !.ap.pathArmAbove = TRUE, !.ap.pathArm = FALSE,
                            !.out.arm = "above"]
             ELSE [w EXCEPT !.ap.pathArm = FALSE, !.ap.pathArmAbove = FALSE,
                            !.out.arm = "clear"]

\* canPathExecute that does not store the required vertical speed when armed
\* from above
canPathExecute_noRequiredVs(w) ==
    IF w.ap.pathArm /\ ~w.ap.pathActive
    THEN IF w.env.altDeviation > -300 /\ w.env.altDeviation < 1000
         THEN [w EXCEPT !.ap.vnavTargetAltitude = w.env.vnavTargetAltitude,
                        !.ap.pathActivate = TRUE]
         ELSE w
    ELSE IF w.ap.pathArmAbove /\ ~w.ap.pathActive
    THEN IF w.env.altDeviation > -300 /\ w.env.altDeviation < 300
         THEN [w EXCEPT !.ap.vnavTargetAltitude = w.env.vnavTargetAltitude,
                        !.ap.pathActivate = TRUE]
         ELSE w
    ELSE w

\* canPathExecute with the from-above capture window widened from 300 ft to
\* 3000 ft, so that a cycle that arms from above also activates
canPathExecute_wideAbove(w) ==
    IF w.ap.pathArm /\ ~w.ap.pathActive
    THEN IF w.env.altDeviation > -300 /\ w.env.altDeviation < 1000
         THEN [w EXCEPT !.ap.vnavTargetAltitude = w.env.vnavTargetAltitude,
                        !.ap.pathActivate = TRUE]
         ELSE w
    ELSE IF w.ap.pathArmAbove /\ ~w.ap.pathActive
    THEN IF w.env.altDeviation > -300 /\ w.env.altDeviation < 3000
         THEN [w EXCEPT !.ap.vnavTargetAltitude = w.env.vnavTargetAltitude,
                        !.ap.pathActivate = TRUE]
         ELSE w
    ELSE w

\* lines 119-139
canPathExecute(w) ==
    IF w.ap.pathArm /\ ~w.ap.pathActive
    THEN IF w.env.altDeviation > -300 /\ w.env.altDeviation < 1000
         THEN [w EXCEPT !.ap.vnavTargetAltitude = w.env.vnavTargetAltitude,
                        !.ap.pathActivate = TRUE]
         ELSE w
    ELSE IF w.ap.pathArmAbove /\ ~w.ap.pathActive
    THEN LET altitudeDifference == w.ap.indicatedAltitude - w.env.vnavTargetAltitude
             w1 == [w EXCEPT !.ap.pathFromAboveRequiredVs =
                        requiredVs(altitudeDifference, w.env.vnavTargetDistance,
                                   w.env.groundSpeed)]
         IN  IF w.env.altDeviation > -300 /\ w.env.altDeviation < 300
             THEN [w1 EXCEPT !.ap.vnavTargetAltitude = w.env.vnavTargetAltitude,
                             !.ap.pathActivate = TRUE]
             ELSE w1
    ELSE w

\* oddHigherConstraint with a margin of 200 ft
oddHigherConstraint_over200(w) ==
    /\ w.ap.pathActive
    /\ ~JsRoundEq(w.ap.vnavTargetAltitude, w.env.vnavTargetAltitude)
    /\ w.ap.vnavTargetAltitude # Undefined
    /\ w.env.vnavTargetAltitude > w.ap.vnavTargetAltitude + 200

\* lines 142-147: the path is active and the next constraint is more than 100 ft
\* above the held one
oddHigherConstraint(w) ==
    /\ w.ap.pathActive
    /\ ~JsRoundEq(w.ap.vnavTargetAltitude, w.env.vnavTargetAltitude)
    /\ w.ap.vnavTargetAltitude # Undefined
    /\ w.env.vnavTargetAltitude > w.ap.vnavTargetAltitude + 100

\* isPathActive that goes on to the new target only within half a mile of the
\* top of descent
isPathActive_halfMile(w) ==
    IF ~w.ap.pathActive THEN w
    ELSE IF JsRoundEq(w.ap.vnavTargetAltitude, w.env.vnavTargetAltitude) THEN w
    ELSE LET w1 == [w EXCEPT !.ap.pathArmFired = FALSE]
         IN  IF w.env.distanceToTod > 5
             THEN [w1 EXCEPT !.ap.pathActive = FALSE, !.out.branch = "coast"]
             ELSE [w1 EXCEPT !.ap.vnavTargetAltitude = w.env.vnavTargetAltitude,
                             !.ap.pathActive = FALSE,
                             !.ap.pathActivate = TRUE,
                             !.out.branch = "continue"]

\* lines 142-166, the branches that do not return
isPathActive(w) ==
    IF ~w.ap.pathActive THEN w
    ELSE IF JsRoundEq(w.ap.vnavTargetAltitude, w.env.vnavTargetAltitude) THEN w
    ELSE LET w1 == [w EXCEPT !.ap.pathArmFired = FALSE]
         IN  IF w.env.distanceToTod > 10
             THEN [w1 EXCEPT !.ap.pathActive = FALSE, !.out.branch = "coast"]
             ELSE [w1 EXCEPT !.ap.vnavTargetAltitude = w.env.vnavTargetAltitude,
                             !.ap.pathActive = FALSE,
                             !.ap.pathActivate = TRUE,
                             !.out.branch = "continue"]

\* lines 213-221: pathStatusSimVar was read once, at line 211
activatePath(w, pathStatusSimVar) ==
    IF w.ap.pathActivate
    THEN LET w1 == setTargetAltitude(w, w.ap.vnavTargetAltitude)
             w2 == [w1 EXCEPT !.ap.pathActive = TRUE, !.ap.pathActivate = FALSE]
         IN  IF pathStatusSimVar # 3 THEN SetSimVar(w2, "pathStatus", 3) ELSE w2
    ELSE w

\* setPathStatus that shows ARMED from above while the vertical speed is not
\* below the required one
setPathStatus_shallowerArms(w, pathStatusSimVar) ==
    IF w.ap.pathActive
    THEN LET w1 == IF pathStatusSimVar # 3 THEN SetSimVar(w, "pathStatus", 3) ELSE w
             w2 == IF w.env.selectedAlt2 # w.ap.vnavTargetAltitude
                   THEN setTargetAltitude(w1, w.ap.vnavTargetAltitude) ELSE w1
         IN  IF w.env.currentAltSlotIndex # 2 /\ w.env.altDeviation > 0
             THEN [w2 EXCEPT !.ap.vnavAltSlot = 2] ELSE w2
    ELSE IF w.ap.pathArm
    THEN IF pathStatusSimVar # 1 THEN SetSimVar(w, "pathStatus", 1) ELSE w
    ELSE IF w.ap.pathArmAbove
    THEN LET currentVS == w.env.verticalSpeed
         IN  IF ~IntLtRat(currentVS, w.ap.pathFromAboveRequiredVs)
             THEN IF pathStatusSimVar # 1 THEN SetSimVar(w, "pathStatus", 1) ELSE w
             ELSE IF pathStatusSimVar # 2 THEN SetSimVar(w, "pathStatus", 2) ELSE w
    ELSE recalculate(IF pathStatusSimVar # 0 THEN SetSimVar(w, "pathStatus", 0) ELSE w)

\* lines 223-264
setPathStatus(w, pathStatusSimVar) ==
    IF w.ap.pathActive
    THEN LET w1 == IF pathStatusSimVar # 3 THEN SetSimVar(w, "pathStatus", 3) ELSE w
             w2 == IF w.env.selectedAlt2 # w.ap.vnavTargetAltitude
                   THEN setTargetAltitude(w1, w.ap.vnavTargetAltitude) ELSE w1
         IN  IF w.env.currentAltSlotIndex # 2 /\ w.env.altDeviation > 0
             THEN [w2 EXCEPT !.ap.vnavAltSlot = 2] ELSE w2
    ELSE IF w.ap.pathArm
    THEN IF pathStatusSimVar # 1 THEN SetSimVar(w, "pathStatus", 1) ELSE w
    ELSE IF w.ap.pathArmAbove
    THEN LET currentVS == w.env.verticalSpeed
         IN  IF IntLtRat(currentVS, w.ap.pathFromAboveRequiredVs)
             THEN IF pathStatusSimVar # 1 THEN SetSimVar(w, "pathStatus", 1) ELSE w
             ELSE IF pathStatusSimVar # 2 THEN SetSimVar(w, "pathStatus", 2) ELSE w
    ELSE recalculate(IF pathStatusSimVar # 0 THEN SetSimVar(w, "pathStatus", 0) ELSE w)

\* lines 281-302: which altitude preselector slot to ask for
constraintSlot(w) ==
    LET altSlot == w.env.currentAltSlotIndex
        altSet1 == w.env.selectedAlt1
        altSet2 == w.env.selectedAlt2
        w1 == [w EXCEPT !.ap.obeyingConstraint = TRUE]
    IN  IF w.env.segmentDeparture
        THEN IF altSet1 > altSet2 /\ (altSlot = 1 \/ altSlot = 3)
             THEN [w1 EXCEPT !.ap.vnavAltSlot = 2]
             ELSE IF altSet1 <= altSet2 /\ altSlot = 2
             THEN [w1 EXCEPT !.ap.vnavAltSlot = 1]
             ELSE w1
        ELSE IF altSet1 < altSet2 /\ altSlot = 1
             THEN [w1 EXCEPT !.ap.vnavAltSlot = 2]
             ELSE IF altSet1 >= altSet2 /\ altSlot = 2
             THEN [w1 EXCEPT !.ap.vnavAltSlot = 1]
             ELSE w1

\* lines 267-311: no path, follow the altitude constraint.  In line 270
\* `(VerticalNavModeState.ALT || VerticalNavModeState.ALTC)` is a constant and truthy.
setConstraint(w) ==
    LET altSet2 == w.env.selectedAlt2
        differs == altSet2 # w.env.vnavConstraintAltitude
        w1 == IF w.env.vnavConstraintWaypoint
              THEN LET wa == IF differs
                             THEN setTargetAltitude(w, w.env.vnavConstraintAltitude)
                             ELSE w
                   IN  IF w.env.currentVerticalActiveState \in {"PTCH", "VS", "FLC"}
                       THEN constraintSlot(
                                IF differs
                                THEN setTargetAltitude(wa, w.env.vnavConstraintAltitude)
                                ELSE wa)
                       ELSE wa
              ELSE [SetSimVar(w, "isConstraint", 0) EXCEPT !.ap.vnavAltSlot = 1]
    IN  IF w.env.vsHoldVar2 # 0 THEN VsVarSet(w1, <<"constraint", 0>>) ELSE w1

\* lines 322-342: the vertical speed to command, in 1/10000 ft/min before the
\* rounding up to a multiple of 100 ft/min, in ft/min after it
\* setVerticalSpeed with the corrections of lines 331 and 335 left uncapped
setVerticalSpeed_uncapped(groundSpeed, fpa, altDeviation, vnavTargetDistance) ==
    LET desired == desiredVerticalSpeed(groundSpeed, fpa)
        raw == IF vnavTargetDistance < 10 /\ vnavTargetDistance > 0 THEN desired
               ELSE IF altDeviation > 10
               THEN desired - Max(21000 * altDeviation, 100 * 10000)
               ELSE IF altDeviation < -10
               THEN desired + Max(-21000 * altDeviation, 100 * 10000)
               ELSE desired
    IN  100 * CeilDiv(raw, 100 * 10000)

setVerticalSpeed(groundSpeed, fpa, altDeviation, vnavTargetDistance) ==
    LET desired == desiredVerticalSpeed(groundSpeed, fpa)
        maxVerticalSpeed == VsPerKnot(6) * groundSpeed
        maxCorrection == maxVerticalSpeed + desired
        raw == IF vnavTargetDistance < 10 /\ vnavTargetDistance > 0 THEN desired
               ELSE IF altDeviation > 10
               THEN desired - Min(Max(21000 * altDeviation, 100 * 10000), maxCorrection)
               ELSE IF altDeviation < -10
               THEN desired + Min(Max(-21000 * altDeviation, 100 * 10000), -desired)
               ELSE desired
    IN  100 * CeilDiv(raw, 100 * 10000)

\* lines 314-346: fly the path
setPathVs(w) ==
    LET w1 == SetSimVar(w, "activeFpa", activeFPA(w))
        w2 == IF w.env.selectedAlt2 # w.ap.vnavTargetAltitude
              THEN setTargetAltitude(w1, w.ap.vnavTargetAltitude) ELSE w1
        w3 == VsVarSet(w2, <<"path", setVerticalSpeed(w.env.groundSpeed, activeFPA(w),
                                                      w.env.altDeviation,
                                                      w.env.vnavTargetDistance)>>)
    IN  IF w.env.verticalHold # 1 /\ w.env.altDeviation > 0
        THEN QueueEvent(w3, "AP_PANEL_VS_HOLD") ELSE w3

\* execute() without the return of lines 196-198
execute_ignoreInhibit(w) ==
    LET w1 == monitorValues(setDonut(setSnowflake(checkPreselector(w))))
        pathStatusSimVar == w1.sv.pathStatus
        w2 == setPathStatus(activatePath(w1, pathStatusSimVar), pathStatusSimVar)
    IN  IF ~w2.ap.pathActive /\ w2.ap.constraintExists THEN setConstraint(w2)
        ELSE IF w2.ap.pathActive THEN setPathVs(w2)
        ELSE w2

\* lines 186-348
execute(w) ==
    LET w1 == monitorValues(setDonut(setSnowflake(checkPreselector(w))))
    IN  IF w1.ap.inhibitExecute THEN [w1 EXCEPT !.out.inhibited = TRUE]
        ELSE LET pathStatusSimVar == w1.sv.pathStatus
                 w2 == setPathStatus(activatePath(w1, pathStatusSimVar), pathStatusSimVar)
             IN  IF ~w2.ap.pathActive /\ w2.ap.constraintExists THEN setConstraint(w2)
                 ELSE IF w2.ap.pathActive THEN setPathVs(w2)
                 ELSE w2

Branch(w, b) == [w EXCEPT !.out.branch = b]

\* lines 69-175 with the path calculation running
updatePath(w) ==
    IF w.env.newPath /\ newPathInhibits(w)
    THEN Branch([w EXCEPT !.ap.inhibitExecute = TRUE], "inhibit")
    ELSE LET w1 == IF w.env.newPath THEN acceptNewPath(w) ELSE w
             w2 == canPathExecute(canPathArm(w1))
         IN  IF oddHigherConstraint(w2)
             THEN Branch(deactivate(setTargetAltitude(w2, w2.ap.vnavTargetAltitude)),
                         "higher")
             ELSE vnavAltSlotRequest(execute(isPathActive(Branch(w2, "path"))))

\* lines 42-181
update(w) ==
    LET w1 == interceptInhibit(w)
    IN  IF w1.env.vnavCalculating
        THEN LET w2 == constraintData(w1)
             IN  IF w2.env.pathCalculating THEN updatePath(w2)
                 ELSE IF w2.ap.constraintExists
                 THEN vnavAltSlotRequest(execute(Branch(w2, "constraint")))
                 ELSE recalculate(Branch(w2, "recalculate"))
        ELSE vnavAltSlotRequest(deactivate(Branch(w1, "off")))

(***************************************************************************)
(* The flight plan manager, as LNavDirector uses it                        *)
(***************************************************************************)

\* A waypoint with the flags the director reads; getWaypoint() outside the plan
\* gives undefined, here NoWaypoint.
Wp(isRunway, endsInDiscontinuity, isFlyover, hasHold) ==
    [defined |-> TRUE, isRunway |-> isRunway,
     endsInDiscontinuity |-> endsInDiscontinuity,
     isFlyover |-> isFlyover, hasHold |-> hasHold]

NoWaypoint ==
    [defined |-> FALSE, isRunway |-> FALSE, endsInDiscontinuity |-> FALSE,
     isFlyover |-> FALSE, hasHold |-> FALSE]

\* plan.getWaypoint(index) and fpm.getWaypoint(index), indices from 0
getWaypoint(plan, index) ==
    IF index + 1 \in DOMAIN plan.waypoints THEN plan.waypoints[index + 1]
    ELSE NoWaypoint

\* fpm.setActiveWaypointIndex(index): the index is set and the plan version moves on
setActiveWaypointIndex(w, index) ==
    [w EXCEPT !.fpm.activeWaypointIndex = index,
              !.fpm.version = @ + 1,
              !.out.setIndex = Append(@, index)]

\* fpm.clearDiscontinuity(index)
clearDiscontinuity(w, index) ==
    IF index + 1 \in DOMAIN w.fpm.waypoints
    THEN [w EXCEPT !.fpm.waypoints[index + 1].endsInDiscontinuity = FALSE,
                   !.fpm.version = @ + 1]
    ELSE w

(***************************************************************************)
(* LNavDirector                                                            *)
(***************************************************************************)

\* LNavDirectorOptions, in tenths of a nautical mile and in degrees
minimumTrackingDistance == 10
degreesRollout == 15

\* maxTurnAnticipationDistance(planeState), line 352
maxTurnAnticipationDistance(planeState) ==
    IF planeState.trueAirspeed < 350 THEN 70 ELSE 100

LNavNoOut ==
    [headings |-> <<>>, setIndex |-> <<>>, set |-> <<>>, seq |-> "none",
     threw |-> FALSE, handled |-> FALSE, resolved |-> FALSE, dispatch |-> "none"]

\* SimVar.SetSimVarValue by the lateral director
LNavSetSimVar(w, name, v) ==
    [w EXCEPT !.lsv = IF name \in DOMAIN @ THEN [@ EXCEPT ![name] = v] ELSE @,
              !.out.set = (name :> v) @@ @]

\* a TypeError: a property of undefined is read, and the operation ends there
Throw(w) == [w EXCEPT !.out.threw = TRUE]

\* lines 292-300: Coherent.call("HEADING_BUG_SET", ...), recorded by the course
\* it was asked to fly
setCourse(w, course) == [w EXCEPT !.out.headings = Append(@, course)]

\* lines 267-285
trackLeg(w, executeCourse) ==
    LET w1 == LNavSetSimVar(LNavSetSimVar(w, "xtk", "leg"), "dtk", "leg")
    IN  IF executeCourse THEN setCourse(w1, "leg") ELSE w1

\* lines 140-148.  fiveSecondDistance is groundSpeed * 5 / 3600 NM, so with the
\* distances in tenths of a NM the test is 72 d < 72 s + groundSpeed.
alertIfClose(w, distanceToActive, sequenceDistance) ==
    IF /\ 72 * distanceToActive < 72 * sequenceDistance + w.env.groundSpeed
       /\ w.lnav.state # "IN_DISCONTINUITY"
       /\ w.lnav.sequencingMode # "INHIBIT"
    THEN LNavSetSimVar(w, "wptAlert", 1)
    ELSE LNavSetSimVar(w, "wptAlert", 0)

\* lines 129-131
canSequence(activeWaypoint) ==
    /\ activeWaypoint.defined
    /\ ~(activeWaypoint.endsInDiscontinuity \/ activeWaypoint.isRunway)

\* lines 155-163.  The holds director is another class: whether it has exited
\* the hold, and the state its update() leaves it in, are read from env.
delegateToHoldsDirector(w, activeWaypoint) ==
    /\ activeWaypoint.defined
    /\ activeWaypoint.hasHold
    /\ ~w.env.holdExited
    /\ w.env.holdState \notin {"NONE", "EXITED"}

\* lines 171-179.  The turn radius and bank terms come from AutopilotMath and
\* the aircraft state; their sum is read from env.
getAnticipationDistance(w) ==
    Min(w.env.turnAnticipation, maxTurnAnticipationDistance(w.env))

\* sequenceToNextWaypoint without the ground speed test
sequenceToNextWaypoint_anySpeed(w, currentWaypoint) ==
    IF w.lnav.sequencingMode # "INHIBIT"
    THEN LET nextWaypoint == getWaypoint(w.fpm, w.fpm.activeWaypointIndex + 1)
         IN  IF currentWaypoint.defined /\ currentWaypoint.endsInDiscontinuity
             THEN LET w1 == [w EXCEPT !.lnav.state = "IN_DISCONTINUITY",
                                      !.out.seq = "discontinuity"]
                      w2 == LNavSetSimVar(w1, "inDiscontinuity", 1)
                  IN  setCourse([w2 EXCEPT !.lnav.sequencingMode = "INHIBIT"], "present")
             ELSE IF nextWaypoint.defined /\ nextWaypoint.isRunway
             THEN setActiveWaypointIndex(
                      [w EXCEPT !.lnav.sequencingMode = "INHIBIT",
                                !.lnav.state = "TURN_COMPLETING",
                                !.out.seq = "runway"],
                      w.fpm.activeWaypointIndex + 1)
             ELSE setActiveWaypointIndex(
                      [w EXCEPT !.lnav.state = "TURN_COMPLETING", !.out.seq = "next"],
                      w.fpm.activeWaypointIndex + 1)
    ELSE [w EXCEPT !.out.seq = "blocked"]

\* sequenceToNextWaypoint without the runway rule of lines 222-227
sequenceToNextWaypoint_noRunwayRule(w, currentWaypoint) ==
    IF w.lnav.sequencingMode # "INHIBIT" /\ w.env.groundSpeed > 25
    THEN IF currentWaypoint.defined /\ currentWaypoint.endsInDiscontinuity
         THEN LET w1 == [w EXCEPT !.lnav.state = "IN_DISCONTINUITY",
                                  !.out.seq = "discontinuity"]
                  w2 == LNavSetSimVar(w1, "inDiscontinuity", 1)
              IN  setCourse([w2 EXCEPT !.lnav.sequencingMode = "INHIBIT"], "present")
         ELSE setActiveWaypointIndex(
                  [w EXCEPT !.lnav.state = "TURN_COMPLETING",
                            !.out.seq =
                                IF getWaypoint(w.fpm, w.fpm.activeWaypointIndex + 1).isRunway
                                THEN "runway" ELSE "next"],
                  w.fpm.activeWaypointIndex + 1)
    ELSE [w EXCEPT !.out.seq = "blocked"]

\* sequenceToNextWaypoint with the runway rule tested before the discontinuity
sequenceToNextWaypoint_runwayFirst(w, currentWaypoint) ==
    IF w.lnav.sequencingMode # "INHIBIT" /\ w.env.groundSpeed > 25
    THEN LET nextWaypoint == getWaypoint(w.fpm, w.fpm.activeWaypointIndex + 1)
         IN  IF nextWaypoint.defined /\ nextWaypoint.isRunway
             THEN setActiveWaypointIndex(
                      [w EXCEPT !.lnav.sequencingMode = "INHIBIT",
                                !.lnav.state = "TURN_COMPLETING",
                                !.out.seq = "runway"],
                      w.fpm.activeWaypointIndex + 1)
             ELSE IF currentWaypoint.defined /\ currentWaypoint.endsInDiscontinuity
             THEN LET w1 == [w EXCEPT !.lnav.state = "IN_DISCONTINUITY",
                                      !.out.seq = "discontinuity"]
                      w2 == LNavSetSimVar(w1, "inDiscontinuity", 1)
                  IN  setCourse([w2 EXCEPT !.lnav.sequencingMode = "INHIBIT"], "present")
             ELSE setActiveWaypointIndex(
                      [w EXCEPT !.lnav.state = "TURN_COMPLETING", !.out.seq = "next"],
                      w.fpm.activeWaypointIndex + 1)
    ELSE [w EXCEPT !.out.seq = "blocked"]

\* lines 211-233.  out.seq records what the call did.
sequenceToNextWaypoint(w, currentWaypoint) ==
    IF w.lnav.sequencingMode # "INHIBIT" /\ w.env.groundSpeed > 25
    THEN LET nextWaypoint == getWaypoint(w.fpm, w.fpm.activeWaypointIndex + 1)
         IN  IF currentWaypoint.defined /\ currentWaypoint.endsInDiscontinuity
             THEN LET w1 == [w EXCEPT !.lnav.state = "IN_DISCONTINUITY",
                                      !.out.seq = "discontinuity"]
                      w2 == LNavSetSimVar(w1, "inDiscontinuity", 1)
                  IN  setCourse([w2 EXCEPT !.lnav.sequencingMode = "INHIBIT"], "present")
             ELSE IF nextWaypoint.defined /\ nextWaypoint.isRunway
             THEN setActiveWaypointIndex(
                      [w EXCEPT !.lnav.sequencingMode = "INHIBIT",
                                !.lnav.state = "TURN_COMPLETING",
                                !.out.seq = "runway"],
                      w.fpm.activeWaypointIndex + 1)
             ELSE setActiveWaypointIndex(
                      [w EXCEPT !.lnav.state = "TURN_COMPLETING", !.out.seq = "next"],
                      w.fpm.activeWaypointIndex + 1)
    ELSE [w EXCEPT !.out.seq = "blocked"]

\* handleTracking sequencing a second time in the abeam branch
handleTracking_sequencesTwice(w, activeWaypoint, previousWaypoint) ==
    LET nextWaypoint == getWaypoint(w.fpm, w.fpm.activeWaypointIndex + 1)
        distanceToActive == w.env.distanceToActive
    IN  IF ~nextWaypoint.defined \/ ~previousWaypoint.defined THEN Throw(w)
        ELSE LET w1 == alertIfClose(w, distanceToActive, 0)
             IN  IF w.env.abeam
                 THEN sequenceToNextWaypoint(
                          sequenceToNextWaypoint(w1, activeWaypoint), activeWaypoint)
                 ELSE trackLeg(w1, distanceToActive > minimumTrackingDistance)

\* lines 68-100.  Line 72 reads nextWaypoint.infos and line 77
\* previousWaypoint.infos: each throws when that waypoint is undefined.
handleTracking(w, activeWaypoint, previousWaypoint) ==
    LET nextWaypoint == getWaypoint(w.fpm, w.fpm.activeWaypointIndex + 1)
        distanceToActive == w.env.distanceToActive
    IN  IF ~nextWaypoint.defined \/ ~previousWaypoint.defined THEN Throw(w)
        ELSE LET w1 == alertIfClose(w, distanceToActive, 0)
             IN  IF w.env.abeam THEN sequenceToNextWaypoint(w1, activeWaypoint)
                 ELSE LET anticipationDistance == getAnticipationDistance(w1)
                          w2 == IF ~nextWaypoint.isFlyover
                                THEN LET w3 == alertIfClose(w1, distanceToActive,
                                                            anticipationDistance)
                                     IN  IF distanceToActive < anticipationDistance
                                            /\ ~nextWaypoint.isFlyover
                                         THEN sequenceToNextWaypoint(w3, activeWaypoint)
                                         ELSE w3
                                ELSE w1
                      IN  trackLeg(w2, distanceToActive > minimumTrackingDistance)

\* lines 107-122.  Line 109 reads previousWaypoint.infos.
handleTurnCompleting(w, activeWaypoint, previousWaypoint) ==
    IF ~previousWaypoint.defined THEN Throw(w)
    ELSE IF w.env.angleDiffToTarget < degreesRollout
    THEN [w EXCEPT !.lnav.state = "TRACKING"]
    ELSE setCourse(trackLeg(w, FALSE), "turn")

\* handleFlightPlanChanged that leaves IN_DISCONTINUITY whatever the active
\* waypoint ends in
handleFlightPlanChanged_alwaysLeaves(w, currentFlightPlanVersion) ==
    LET w1 == [w EXCEPT !.lnav.hasPlan = TRUE, !.out.handled = TRUE]
        w2 == IF w1.lnav.sequencingMode = "INHIBIT"
              THEN [w1 EXCEPT !.lnav.sequencingMode = "AUTO"] ELSE w1
        w3 == IF w2.lnav.state = "IN_DISCONTINUITY"
              THEN [LNavSetSimVar(w2, "inDiscontinuity", 0)
                        EXCEPT !.lnav.state = "TRACKING", !.out.resolved = TRUE]
              ELSE w2
    IN  [LNavSetSimVar(w3, "wptAlert", 0)
            EXCEPT !.lnav.currentFlightPlanVersion = currentFlightPlanVersion]

\* lines 185-204.  Line 190 compares and assigns nothing.  out.resolved: the
\* handler left IN_DISCONTINUITY.
handleFlightPlanChanged(w, currentFlightPlanVersion) ==
    LET w1 == [w EXCEPT !.lnav.hasPlan = TRUE, !.out.handled = TRUE]
        activeWaypoint == getWaypoint(w1.fpm, w1.fpm.activeWaypointIndex)
        w2 == IF w1.lnav.sequencingMode = "INHIBIT"
              THEN [w1 EXCEPT !.lnav.sequencingMode = "AUTO"] ELSE w1
        w3 == IF /\ w2.lnav.state = "IN_DISCONTINUITY"
                 /\ ~(activeWaypoint.defined /\ activeWaypoint.endsInDiscontinuity)
              THEN [LNavSetSimVar(w2, "inDiscontinuity", 0)
                        EXCEPT !.lnav.state = "TRACKING", !.out.resolved = TRUE]
              ELSE w2
    IN  [LNavSetSimVar(w3, "wptAlert", 0)
            EXCEPT !.lnav.currentFlightPlanVersion = currentFlightPlanVersion]

\* lines 41-44: L:WT.FlightPlan.Version is the manager's version
resync(w) ==
    IF w.lnav.currentFlightPlanVersion # w.fpm.version
    THEN handleFlightPlanChanged(w, w.fpm.version) ELSE w

\* lines 46-60
dispatch(w) ==
    IF ~w.lnav.hasPlan THEN w
    ELSE LET previousWaypoint == getWaypoint(w.fpm, w.fpm.activeWaypointIndex - 1)
             activeWaypoint == getWaypoint(w.fpm, w.fpm.activeWaypointIndex)
         IN  IF ~delegateToHoldsDirector(w, activeWaypoint) /\ activeWaypoint.defined
             THEN IF w.lnav.state = "TRACKING"
                  THEN handleTracking([w EXCEPT !.out.dispatch = "TRACKING"],
                                      activeWaypoint, previousWaypoint)
                  ELSE IF w.lnav.state = "TURN_COMPLETING"
                  THEN handleTurnCompleting(
                           [w EXCEPT !.out.dispatch = "TURN_COMPLETING"],
                           activeWaypoint, previousWaypoint)
                  ELSE w
             ELSE w

\* LNavDirector.update(), lines 40-61
lnavUpdate(w) == dispatch(resync(w))

\* lines 238-251.  Line 239 reads this.activeFlightPlan, undefined until the first
\* plan change has been handled.
setAutoSequencing(w) ==
    IF ~w.lnav.hasPlan THEN Throw(w)
    ELSE LET activeWaypoint == getWaypoint(w.fpm, w.fpm.activeWaypointIndex)
             w1 == IF \/ w.lnav.state = "IN_DISCONTINUITY"
                      \/ (activeWaypoint.defined /\ activeWaypoint.isRunway)
                   THEN LET nextWaypointIndex == w.fpm.activeWaypointIndex + 1
                            wa == LNavSetSimVar([w EXCEPT !.lnav.state = "TRACKING"],
                                                "inDiscontinuity", 0)
                        IN  clearDiscontinuity(
                                setActiveWaypointIndex(wa, nextWaypointIndex),
                                nextWaypointIndex - 1)
                   ELSE w
         IN  [w1 EXCEPT !.lnav.sequencingMode = "AUTO"]

\* lines 256-258
setInhibitSequencing(w) == [w EXCEPT !.lnav.sequencingMode = "INHIBIT"]

(***************************************************************************)
(* State, initial state and actions of the vertical director               *)
(***************************************************************************)

\* The world an operation starts in: the director as it is, nothing emitted yet,
\* and the environment e it reads, with the new-path signal as it stands.
World(e) ==
    [ap |-> ap, sv |-> sv, out |-> NoOut, env |-> [e EXCEPT !.newPath = newPath]]

Commit(w, op) ==
    /\ ap' = w.ap
    /\ sv' = w.sv
    /\ newPath' = w.env.newPath
    /\ last' = [op |-> op, branch |-> w.out.branch, arm |-> w.out.arm,
                slotRuns |-> w.out.slotRuns, inhibited |-> w.out.inhibited]
    /\ UNCHANGED lvars

\* the constructor, lines 2-30.  Fields it sets that no method reads are left out.
apInit ==
    [vnavTargetAltitude |-> Undefined,
     inhibitExecute |-> FALSE,
     constraintExists |-> FALSE,
     pathArm |-> FALSE,
     pathArmAbove |-> FALSE,
     pathArmFired |-> FALSE,
     pathFromAboveRequiredVs |-> RatUndefined,
     pathActive |-> FALSE,
     pathActivate |-> FALSE,
     obeyingConstraint |-> FALSE,
     vnavAltSlot |-> Undefined,
     indicatedAltitude |-> Undefined]

\* L:WT_VNAV_PATH_STATUS, L:WT_CJ4_SNOWFLAKE and L:WT_VNAV_TOD_FMC_ALERT, the
\* variables the director reads back.  Those it only writes are in out.set.
svInit == [pathStatus |-> 0, snowflake |-> 0, todAlert |-> 0]


\* the environment before anything has been computed upstream
envInit ==
    [vnavCalculating |-> FALSE, vnavConstraintType |-> FALSE, pathCalculating |-> FALSE,
     newPath |-> FALSE, vnavTargetAltitude |-> 5000, altDeviation |-> 0,
     distanceToTod |-> 100, topOfDescent |-> 200, vnavTargetDistance |-> 100,
     gpExists |-> FALSE, gpAngle |-> 3, desiredFPA |-> 3,
     vnavConstraintWaypoint |-> TRUE, constraintCumDist |-> 500,
     vnavConstraintAltitude |-> 5000, activeWaypointDist |-> 50, activeCumDist |-> 300,
     segmentDeparture |-> FALSE, altitude |-> 6000,
     currentVerticalActiveState |-> "VS",
     lateralAPPR |-> FALSE, selectedAlt1 |-> 4000, selectedAlt2 |-> 5000,
     currentAltSlotIndex |-> 1,
     indicatedAltitude |-> 6000, altLock3 |-> 5000, altLock1 |-> 4000,
     groundSpeed |-> 200, verticalSpeed |-> -500, vsHoldVar2 |-> 0, verticalHold |-> 1]

lastInit ==
    [op |-> "init", branch |-> "none", arm |-> "none", slotRuns |-> 0,
     inhibited |-> FALSE]

\* the LNavDirector constructor, lines 10-35.  hasPlan: this.activeFlightPlan is
\* the manager's plan and no longer undefined.
lnavInit ==
    [state |-> "TRACKING", sequencingMode |-> "AUTO",
     currentFlightPlanVersion |-> 0, hasPlan |-> FALSE]

lsvInit == [inDiscontinuity |-> 0]

llastInit ==
    [op |-> "init", seq |-> "none", threw |-> FALSE, handled |-> FALSE,
     resolved |-> FALSE, dispatch |-> "none", headings |-> <<>>,
     runwayHold |-> FALSE]

Plain == Wp(FALSE, FALSE, FALSE, FALSE)
Runway == Wp(TRUE, FALSE, FALSE, FALSE)
Discontinuity == Wp(FALSE, TRUE, FALSE, FALSE)
Flyover == Wp(FALSE, FALSE, TRUE, FALSE)
Hold == Wp(FALSE, FALSE, FALSE, TRUE)

\* The flight plans flown: plain legs; a runway at the end; a runway followed by
\* a missed approach leg; a discontinuity, followed by a leg or by a runway; a
\* fly-over waypoint; a hold.
Plans ==
    {<<Plain, Plain, Plain, Plain>>,
     <<Plain, Plain, Runway>>,
     <<Plain, Plain, Runway, Plain>>,
     <<Plain, Discontinuity, Plain>>,
     <<Plain, Discontinuity, Runway>>,
     <<Plain, Plain, Flyover, Plain>>,
     <<Plain, Hold, Plain>>}

\* the manager with plan p loaded, flying to its second waypoint
fpmInit(p, version) ==
    [waypoints |-> p, activeWaypointIndex |-> 1, version |-> version]

VInit ==
    /\ ap = apInit
    /\ sv = svInit
    /\ newPath = FALSE
    /\ last = lastInit
    /\ lnav = lnavInit
    /\ fpm = fpmInit(<<Plain, Plain, Plain, Plain>>, 0)
    /\ lsv = lsvInit
    /\ llast = llastInit

\* e with the fields of r set as r gives them
Overlay(e, r) == [f \in DOMAIN e |-> IF f \in DOMAIN r THEN r[f] ELSE e[f]]

\* All records over the fields of dom, each field within its set
RECURSIVE Choices(_, _)
Choices(dom, fields) ==
    IF fields = {} THEN {<<>>}
    ELSE LET f == CHOOSE x \in fields : TRUE
         IN  {(f :> v) @@ r : v \in dom[f], r \in Choices(dom, fields \ {f})}

\* The environments that differ from base within dom
Inputs(base, dom) == {Overlay(base, r) : r \in Choices(dom, DOMAIN dom)}

\* What upstream reports in the cycles of Spec: nothing calculated; a constraint
\* or nothing, without a path; a path with its target, deviation and distance
\* to the top of descent, with the autopilot in vertical speed or capturing.
PathInputs ==
    {envInit}
    \cup Inputs([envInit EXCEPT !.vnavCalculating = TRUE],
                [vnavConstraintType |-> BOOLEAN,
                 altDeviation |-> {0, 1500}])
    \cup Inputs([envInit EXCEPT !.vnavCalculating = TRUE, !.pathCalculating = TRUE],
                [vnavConstraintType |-> BOOLEAN,
                 vnavTargetAltitude |-> {5000, 5050, 5200},
                 altDeviation |-> {-400, 500, 1500},
                 distanceToTod |-> {5, 100},
                 currentVerticalActiveState |-> {"VS", "ALTC"}])

\* update(), and activate(), which only calls it
Update == \E e \in PathInputs : Commit(update(World(e)), "update")

Deactivate == Commit(deactivate(World(envInit)), "deactivate")

Failed == Commit(failed(World(envInit)), "failed")

Recalculate == Commit(recalculate(World(envInit)), "recalculate")

\* the upstream trajectory engine signals a new path
NewPath ==
    /\ ~newPath
    /\ newPath' = TRUE
    /\ UNCHANGED <<ap, sv, last>>
    /\ UNCHANGED lvars

Next == Update \/ Deactivate \/ Failed \/ Recalculate \/ NewPath

Spec == VInit /\ [][Next]_vars

\* The update cycles around the arming thresholds of lines 100 and 106: the
\* deviation at and just above 1000 ft, the distance to the top of descent at
\* and around 0 and 20 NM, the selected altitude 75 and 76 ft below the aircraft,
\* the approach mode with and without a glide path, the top of descent at and
\* just beyond the target distance, the aircraft at rest and at the target
\* altitude.
ArmBase == [envInit EXCEPT !.vnavCalculating = TRUE, !.pathCalculating = TRUE]

ArmInputs ==
    {envInit,
     [ArmBase EXCEPT !.altDeviation = 500, !.distanceToTod = 100, !.selectedAlt1 = 5900],
     [ArmBase EXCEPT !.altDeviation = 1500]}
    \cup Inputs([ArmBase EXCEPT !.altDeviation = 1000],
                [distanceToTod |-> {-1, 0, 199, 200},
                 selectedAlt1 |-> {5924, 5925},
                 lateralAPPR |-> BOOLEAN,
                 gpExists |-> BOOLEAN,
                 currentVerticalActiveState |-> {"VS", "ALTC"}])
    \cup Inputs([ArmBase EXCEPT !.altDeviation = 1001],
                [topOfDescent |-> {100, 101},
                 selectedAlt1 |-> {5924, 5925},
                 lateralAPPR |-> BOOLEAN,
                 gpExists |-> {TRUE},
                 groundSpeed |-> {0, 200},
                 indicatedAltitude |-> {5000, 6000},
                 verticalSpeed |-> {-500, 0}])

UpdateArm == \E e \in ArmInputs : Commit(update(World(e)), "update")

NextArm == UpdateArm \/ Deactivate \/ Failed \/ Recalculate \/ NewPath

SpecArm == VInit /\ [][NextArm]_vars

\* The update cycles around the new-path test of lines 74-75: the upstream target
\* at the held one, 50 ft and 200 ft below it, the aircraft 100 ft, 101 ft and
\* well above the held target, the deviation at and just under -100 ft and
\* above the path; and a cycle without a path calculation, with a constraint.
NewPathInputs ==
    {envInit,
     [envInit EXCEPT !.vnavCalculating = TRUE, !.vnavConstraintType = TRUE]}
    \cup Inputs(ArmBase,
                [vnavTargetAltitude |-> {4800, 4950, 5000},
                 indicatedAltitude |-> {5100, 5101, 6000},
                 altDeviation |-> {-101, -100, 150, 500}])

UpdateNewPath == \E e \in NewPathInputs : Commit(update(World(e)), "update")

NextNewPath == UpdateNewPath \/ Deactivate \/ Failed \/ Recalculate \/ NewPath

SpecNewPath == VInit /\ [][NextNewPath]_vars

\* The update cycles around a passed constraint, lines 142-166: the upstream
\* target 100 ft under the lowest held one, and at, 100 ft and 101 ft above a
\* held one; the top of descent 1 NM and 1.1 NM ahead; the aircraft on either
\* side of the path; the autopilot in vertical speed or capturing.
PassedInputs ==
    {envInit}
    \cup Inputs(ArmBase,
                [vnavTargetAltitude |-> {4900, 5000, 5100, 5101},
                 distanceToTod |-> {10, 11},
                 altDeviation |-> {-150, 500},
                 currentVerticalActiveState |-> {"VS", "ALTC"}])

UpdatePassed == \E e \in PassedInputs : Commit(update(World(e)), "update")

NextPassed == UpdatePassed \/ Deactivate \/ Failed \/ Recalculate \/ NewPath

SpecPassed == VInit /\ [][NextPassed]_vars

\* The update cycles that set and reconcile the desired altitude slot, lines
\* 231, 281-308 and 455-463: the mode selector on slot 1, 2 or 3; a path that
\* activates with the aircraft above it; a constraint, at a waypoint or not, in
\* climb and in descent, with the first selected altitude under and over the
\* second; no constraint.
SlotInputs ==
    {envInit}
    \cup Inputs([ArmBase EXCEPT !.altDeviation = 500],
                [currentAltSlotIndex |-> {1, 2, 3}])
    \cup Inputs([envInit EXCEPT !.vnavCalculating = TRUE],
                [vnavConstraintType |-> BOOLEAN,
                 vnavConstraintWaypoint |-> BOOLEAN,
                 segmentDeparture |-> BOOLEAN,
                 selectedAlt1 |-> {4000, 6000},
                 currentAltSlotIndex |-> {1, 2, 3}])

UpdateSlot == \E e \in SlotInputs : Commit(update(World(e)), "update")

NextSlot == UpdateSlot \/ Deactivate \/ Failed \/ Recalculate \/ NewPath

SpecSlot == VInit /\ [][NextSlot]_vars

\* The update cycles that fly the path, lines 313-347 and 414-421: at rest, at
\* 1 kt and at 200 kt; a level path and descent angles of 1 and 6 degrees; an
\* approach with and without a glide path of 3 degrees; the aircraft on the
\* path, 11 ft and 1500 ft below it, 500 ft and 1500 ft above it; the target
\* inside and outside 1 NM; two target altitudes.
VsInputs ==
    {envInit}
    \cup Inputs(ArmBase,
                [groundSpeed |-> {0, 1, 200},
                 desiredFPA |-> {0, 1, 6},
                 lateralAPPR |-> BOOLEAN,
                 gpExists |-> BOOLEAN,
                 altDeviation |-> {-1500, -11, 0, 500, 1500},
                 vnavTargetDistance |-> {5, 100},
                 vnavTargetAltitude |-> {4800, 5000}])

UpdateVs == \E e \in VsInputs : Commit(update(World(e)), "update")

NextVs == UpdateVs \/ Deactivate \/ Failed \/ Recalculate \/ NewPath

SpecVs == VInit /\ [][NextVs]_vars

(***************************************************************************)
(* State, initial state and actions of the lateral director                *)
(***************************************************************************)

\* The flight plan version is a counter: the operations stop where it would pass
\* MaxVersion.
MaxVersion == 4

LNavWorld(e) == [lnav |-> lnav, fpm |-> fpm, lsv |-> lsv, out |-> LNavNoOut, env |-> e]

LNavCommit(w, op) ==
    /\ w.fpm.version <= MaxVersion
    /\ lnav' = w.lnav
    /\ fpm' = w.fpm
    /\ lsv' = w.lsv
    /\ llast' = [op |-> op, seq |-> w.out.seq, threw |-> w.out.threw,
                 handled |-> w.out.handled, resolved |-> w.out.resolved,
                 dispatch |-> w.out.dispatch,
                 runwayHold |-> IF w.out.seq = "runway" THEN TRUE
                                ELSE IF op = "setAutoSequencing" THEN FALSE
                                ELSE llast.runwayHold,
                 headings |-> w.out.headings]
    /\ UNCHANGED vvars

\* the aircraft well short of the active waypoint, on the leg, at cruise speed
planeInit ==
    [groundSpeed |-> 200, trueAirspeed |-> 250, abeam |-> FALSE,
     distanceToActive |-> 50, turnAnticipation |-> 20, angleDiffToTarget |-> 0,
     holdExited |-> FALSE, holdState |-> "NONE"]

\* What an update cycle reads: abeam or not, at and around the 25 kt sequencing
\* threshold, inside and outside the anticipation and minimum tracking
\* distances; the heading at and around the rollout threshold on both sides; the
\* holds director entered, flying or done.
PlaneInputs ==
    Inputs(planeInit,
           [abeam |-> BOOLEAN,
            groundSpeed |-> {25, 26},
            distanceToActive |-> {5, 10, 15, 50},
            turnAnticipation |-> {0, 20}])
    \cup Inputs(planeInit, [angleDiffToTarget |-> {-40, -15, 14, 15, 40}])
    \cup Inputs([planeInit EXCEPT !.abeam = TRUE],
                [holdExited |-> BOOLEAN, holdState |-> {"NONE", "ENTERED", "EXITED"}])
    \cup Inputs(planeInit, [groundSpeed |-> {0, 200}, abeam |-> BOOLEAN])

LInit ==
    /\ ap = apInit
    /\ sv = svInit
    /\ newPath = FALSE
    /\ last = lastInit
    /\ lnav = lnavInit
    /\ fpm \in {fpmInit(p, v) : p \in Plans, v \in {0, 1}}
    /\ lsv = lsvInit
    /\ llast = llastInit

LNavUpdate == \E e \in PlaneInputs : LNavCommit(lnavUpdate(LNavWorld(e)), "update")

SetAutoSequencing ==
    LNavCommit(setAutoSequencing(LNavWorld(planeInit)), "setAutoSequencing")

SetInhibitSequencing ==
    LNavCommit(setInhibitSequencing(LNavWorld(planeInit)), "setInhibitSequencing")

\* the plan is edited upstream: the crew picks the waypoint to fly to
FlightPlanChanged ==
    /\ fpm.version < MaxVersion
    /\ \E i \in 0 .. Len(fpm.waypoints) - 1 :
           fpm' = [fpm EXCEPT !.activeWaypointIndex = i, !.version = @ + 1]
    /\ UNCHANGED <<lnav, lsv, llast>>
    /\ UNCHANGED vvars

LNext == LNavUpdate \/ SetAutoSequencing \/ SetInhibitSequencing \/ FlightPlanChanged

LSpec == LInit /\ [][LNext]_vars

(***************************************************************************)
(* Properties of the vertical director                                     *)
(***************************************************************************)

C2_ArmFlagsExclusive == ~(ap.pathArm /\ ap.pathArmAbove)

\* failed() has run while armed from above: it leaves that flag set
C2_ArmedAboveAfterFailed == last.op = "failed" /\ ap.pathArmAbove /\ ~ap.pathArm

\* C3, as claimed: failed() leaves path status OFF and every annunciator the
\* director writes at zero, the top-of-descent alert of checkPreselector included.
C3_FailedAllNeutral ==
    LET w == failed(World(envInit))
    IN  /\ w.sv.pathStatus = 0
        /\ w.sv.snowflake = 0
        /\ w.out.set["isConstraint"] = 0
        /\ RatIsZero(w.out.set["donut"])
        /\ w.sv.todAlert = 0

\* C3, amended: failed() leaves path status OFF and the target-is-constraint
\* flag, the snowflake and the donut at zero; it does not touch the
\* top-of-descent alert, which stays as it was.
C3_FailedResetsItsAnnunciators ==
    /\ LET w == failed(World(envInit))
       IN  /\ w.sv.pathStatus = 0
           /\ w.sv.snowflake = 0
           /\ w.out.set["isConstraint"] = 0
           /\ RatIsZero(w.out.set["donut"])
           /\ w.sv.todAlert = sv.todAlert
    /\ last.op = "failed" => sv.pathStatus = 0 /\ sv.snowflake = 0

\* failed() has run with the top-of-descent alert raised
C3_AlertStaysAfterFailed == last.op = "failed" /\ sv.todAlert = 1 /\ sv.pathStatus = 0

\* C4: right after deactivate(), and right after failed(), armed from below,
\* armed from above, path active, pending activation and the execution inhibit
\* are all false.
C4_AllFlagsCleared ==
    last.op \in {"deactivate", "failed"} =>
        /\ ~ap.pathArm
        /\ ~ap.pathArmAbove
        /\ ~ap.pathActive
        /\ ~ap.pathActivate
        /\ ~ap.inhibitExecute

\* C5, as claimed: a cycle that gets to the arming step with the path not active
\* and the no-arm condition false, with deviation <= 1000 ft, the top of descent
\* 0 to less than 20 NM ahead, and the selected altitude at least 75 ft below
\* the indicated altitude or an approach with a glide path, arms from below and
\* not from above.
C5_ArmsBelowAtLeast75 ==
    \A e \in ArmInputs :
        LET w0 == World(e)
            w == update(w0)
        IN  /\ reachesArming(w0)
            /\ ~noArm(w0)
            /\ e.altDeviation <= 1000
            /\ e.distanceToTod >= 0 /\ e.distanceToTod < 200
            /\ (e.selectedAlt1 + 75 <= e.indicatedAltitude
                \/ (e.lateralAPPR /\ e.gpExists))
            => w.out.arm = "below" /\ w.ap.pathArm /\ ~w.ap.pathArmAbove

\* C5, amended: the same with the selected altitude more than 75 ft below the
\* indicated altitude; at exactly 75 ft below, without an approach glide path,
\* the cycle arms neither way.
C5_ArmsBelowMoreThan75 ==
    \A e \in ArmInputs :
        LET w0 == World(e)
            w == update(w0)
        IN  /\ (/\ reachesArming(w0)
                /\ ~noArm(w0)
                /\ e.altDeviation <= 1000
                /\ e.distanceToTod >= 0 /\ e.distanceToTod < 200
                /\ (e.selectedAlt1 + 75 < e.indicatedAltitude
                    \/ (e.lateralAPPR /\ e.gpExists))
                => w.out.arm = "below" /\ w.ap.pathArm /\ ~w.ap.pathArmAbove)
            /\ (/\ reachesArming(w0)
                /\ ~noArm(w0)
                /\ e.selectedAlt1 + 75 = e.indicatedAltitude
                /\ ~(e.lateralAPPR /\ e.gpExists)
                => w.out.arm = "clear" /\ ~w.ap.pathArm /\ ~w.ap.pathArmAbove)

\* a cycle has armed from below and, outside the activation window, has not
\* activated
C5_ArmedBelowAtThreshold ==
    /\ last.op = "update" /\ last.arm = "below"
    /\ ap.pathArm /\ ~ap.pathArmAbove /\ ~ap.pathActive

\* C6, as claimed: a cycle that gets to the arming step with the path not active
\* and the no-arm condition false, with deviation > 1000 ft, the top of descent
\* farther than the target distance, and the selected altitude at least 75 ft
\* below the indicated altitude or an approach with a glide path, arms from above
\* and not from below, and stores a nonzero required intercept vertical speed.
C6_ArmsAboveNonzeroVs ==
    \A e \in ArmInputs :
        LET w0 == World(e)
            w == update(w0)
        IN  /\ reachesArming(w0)
            /\ ~noArm(w0)
            /\ e.altDeviation > 1000
            /\ e.topOfDescent > e.vnavTargetDistance
            /\ (e.selectedAlt1 + 75 <= e.indicatedAltitude
                \/ (e.lateralAPPR /\ e.gpExists))
            => /\ w.out.arm = "above" /\ w.ap.pathArmAbove /\ ~w.ap.pathArm
               /\ ~RatIsZero(w.ap.pathFromAboveRequiredVs)

\* C6, amended: the same with the selected altitude more than 75 ft below the
\* indicated altitude; the stored vertical speed is that of lines 130-133
\* for this cycle's inputs, and it is zero exactly when the ground speed is zero
\* or the indicated altitude equals the upstream target altitude.
C6_ArmsAboveStoresRequiredVs ==
    \A e \in ArmInputs :
        LET w0 == World(e)
            w == update(w0)
        IN  /\ reachesArming(w0)
            /\ ~noArm(w0)
            /\ e.altDeviation > 1000
            /\ e.topOfDescent > e.vnavTargetDistance
            /\ (e.selectedAlt1 + 75 < e.indicatedAltitude
                \/ (e.lateralAPPR /\ e.gpExists))
            => /\ w.out.arm = "above" /\ w.ap.pathArmAbove /\ ~w.ap.pathArm
               /\ w.ap.pathFromAboveRequiredVs =
                      requiredVs(e.indicatedAltitude - e.vnavTargetAltitude,
                                 e.vnavTargetDistance, e.groundSpeed)
               /\ RatIsZero(w.ap.pathFromAboveRequiredVs)
                      <=> (e.groundSpeed = 0
                           \/ e.indicatedAltitude = e.vnavTargetAltitude)

\* a cycle has armed from above and stored a nonzero vertical speed
C6_ArmedAboveWithVs ==
    /\ last.op = "update" /\ last.arm = "above"
    /\ ap.pathArmAbove /\ ~ap.pathArm
    /\ ~RatIsZero(ap.pathFromAboveRequiredVs)

(***************************************************************************)
(* Properties of the lateral director                                      *)
(***************************************************************************)

\* the cycle of w dispatches to handleTracking with the aircraft abeam
trackingAbeam(w) ==
    LET w1 == resync(w)
        activeWaypoint == getWaypoint(w1.fpm, w1.fpm.activeWaypointIndex)
    IN  /\ w1.lnav.hasPlan
        /\ activeWaypoint.defined
        /\ ~delegateToHoldsDirector(w1, activeWaypoint)
        /\ w1.lnav.state = "TRACKING"
        /\ w.env.abeam

tookEffect(w) == w.out.seq \in {"discontinuity", "runway", "next"}

\* C7: a TRACKING update cycle with the aircraft abeam the active waypoint
\* sequences in that cycle unless sequencing is inhibited or the ground speed is
\* not above 25 kt; nothing else stops it.
C7_AbeamSequences ==
    \A e \in PlaneInputs :
        LET w0 == LNavWorld(e)
            w1 == resync(w0)
            w == lnavUpdate(w0)
        IN  trackingAbeam(w0) =>
                IF w1.lnav.sequencingMode # "INHIBIT" /\ e.groundSpeed > 25
                THEN tookEffect(w) /\ ~w.out.threw
                ELSE w.out.seq = "blocked"

\* C8: when sequenceToNextWaypoint takes effect with the current waypoint not
\* ending in a discontinuity and the next waypoint a runway, the cycle ends
\* with sequencing INHIBIT, state TURN_COMPLETING, and the active waypoint index
\* moved once, by one, onto the runway.
C8_RunwaySequencing ==
    \A e \in PlaneInputs :
        LET w0 == LNavWorld(e)
            w == lnavUpdate(w0)
            index == w0.fpm.activeWaypointIndex
            currentWaypoint == getWaypoint(w0.fpm, index)
            nextWaypoint == getWaypoint(w0.fpm, index + 1)
        IN  /\ tookEffect(w)
            /\ ~currentWaypoint.endsInDiscontinuity
            /\ nextWaypoint.defined /\ nextWaypoint.isRunway
            => /\ w.lnav.sequencingMode = "INHIBIT"
               /\ w.lnav.state = "TURN_COMPLETING"
               /\ w.out.setIndex = <<index + 1>>
               /\ w.fpm.activeWaypointIndex = index + 1
               /\ getWaypoint(w.fpm, w.fpm.activeWaypointIndex).isRunway

\* a cycle has sequenced onto a runway
C8_SequencedOntoRunway ==
    /\ llast.op = "update" /\ llast.seq = "runway"
    /\ lnav.sequencingMode = "INHIBIT" /\ lnav.state = "TURN_COMPLETING"
    /\ getWaypoint(fpm, fpm.activeWaypointIndex).isRunway

\* C9: with sequencing INHIBIT or the ground speed not above 25 kt,
\* sequenceToNextWaypoint changes neither the state, the sequencing mode, the
\* plan and its active waypoint index nor the discontinuity flag, and commands
\* no heading.
C9_GuardedSequencingNoEffect ==
    \A e \in PlaneInputs :
        LET w1 == resync(LNavWorld(e))
            w == sequenceToNextWaypoint(
                     w1, getWaypoint(w1.fpm, w1.fpm.activeWaypointIndex))
        IN  w1.lnav.sequencingMode = "INHIBIT" \/ e.groundSpeed <= 25 =>
                /\ w.lnav = w1.lnav
                /\ w.fpm = w1.fpm
                /\ w.lsv = w1.lsv
                /\ w.out.headings = w1.out.headings
                /\ w.out.setIndex = w1.out.setIndex
                /\ ~tookEffect(w)

\* a cycle has called sequenceToNextWaypoint abeam the waypoint, and the guard
\* has stopped it: nothing moved and no heading was commanded
C9_SequencingBlocked ==
    /\ llast.op = "update" /\ llast.seq = "blocked"
    /\ llast.headings = <<>>
    /\ lnav.state = "TRACKING"

(***************************************************************************)
(* The vertical director without a path calculation                        *)
(***************************************************************************)

\* the cycle has commanded a path vertical speed
HasPathVs(w) == \E i \in DOMAIN w.out.vs : w.out.vs[i][1] = "path"

\* C10: an update cycle with the vertical calculation running and no path
\* calculation ends with armed from below, armed from above, path active and
\* pending activation false, with path status OFF, and commands no path
\* vertical speed.
C10_NoPathCalculationSuspendsPath ==
    \A e \in PathInputs :
        e.vnavCalculating /\ ~e.pathCalculating =>
            LET w == update(World(e))
            IN  /\ ~w.ap.pathArm
                /\ ~w.ap.pathArmAbove
                /\ ~w.ap.pathActive
                /\ ~w.ap.pathActivate
                /\ w.sv.pathStatus = 0
                /\ ~HasPathVs(w)

(***************************************************************************)
(* The vertical director when the path changes                             *)
(***************************************************************************)

\* C11, as claimed: a cycle that sees the new-path signal inhibits execution and
\* returns early exactly when the new upstream target is more than 100 ft below
\* the held target, the aircraft is more than 100 ft above the held target, and
\* the deviation shows the aircraft more than 100 ft above the path; in every
\* other case the inhibit is cleared and the signal consumed; the inhibit is on
\* only in the state an inhibiting cycle leaves.
C11_InhibitsAbovePathByMoreThan100 ==
    /\ \A e \in NewPathInputs :
           LET w0 == World(e)
               w == update(w0)
               held == ap.vnavTargetAltitude
               inhibits == /\ held # Undefined
                           /\ e.vnavTargetAltitude < held - 100
                           /\ e.indicatedAltitude > held + 100
                           /\ e.altDeviation > 100
           IN  e.vnavCalculating /\ e.pathCalculating /\ newPath
               => /\ w.out.branch = "inhibit" <=> inhibits
                  /\ ~inhibits => ~w.ap.inhibitExecute /\ ~w.env.newPath
    /\ ap.inhibitExecute => last.op = "update" /\ last.branch = "inhibit"

\* C11, amended: the cycle inhibits exactly when the held target is above the
\* new upstream target by any amount, the aircraft is more than 100 ft above the
\* held target and the deviation is under -100 ft.  It then sets the inhibit,
\* leaves the mode flags, the held target and the signal as they were and ends
\* without slot reconciliation.  In every other case it goes on as a cycle that
\* starts with the inhibit and the four flags false and no signal.  A cycle that
\* does not evaluate a new path leaves the inhibit as it was, and so do
\* deactivate(), failed() and recalculate().
C11_InhibitsBelowPath ==
    /\ deactivate(World(envInit)).ap.inhibitExecute = ap.inhibitExecute
    /\ failed(World(envInit)).ap.inhibitExecute = ap.inhibitExecute
    /\ recalculate(World(envInit)).ap.inhibitExecute = ap.inhibitExecute
    /\ \A e \in NewPathInputs :
           LET w0 == World(e)
               w == update(w0)
               held == ap.vnavTargetAltitude
               inhibits == /\ held # Undefined
                           /\ e.vnavTargetAltitude < held
                           /\ e.indicatedAltitude > held + 100
                           /\ e.altDeviation < -100
               cleared == [w0 EXCEPT !.ap.inhibitExecute = FALSE,
                                     !.ap.pathArm = FALSE,
                                     !.ap.pathArmAbove = FALSE,
                                     !.ap.pathActive = FALSE,
                                     !.ap.pathActivate = FALSE,
                                     !.env.newPath = FALSE]
           IN  IF e.vnavCalculating /\ e.pathCalculating /\ newPath
               THEN /\ w.out.branch = "inhibit" <=> inhibits
                    /\ inhibits =>
                           /\ w.ap.inhibitExecute
                           /\ w.ap.pathArm = ap.pathArm
                           /\ w.ap.pathArmAbove = ap.pathArmAbove
                           /\ w.ap.pathActive = ap.pathActive
                           /\ w.ap.pathActivate = ap.pathActivate
                           /\ w.ap.vnavTargetAltitude = held
                           /\ w.env.newPath
                           /\ w.out.slotRuns = 0
                           /\ w.out.alt = <<>> /\ w.out.vs = <<>>
                    /\ ~inhibits =>
                           /\ w = update(cleared)
                           /\ ~w.ap.inhibitExecute
                           /\ ~w.env.newPath
                           /\ w.out.arm # "none"
               ELSE w.ap.inhibitExecute = ap.inhibitExecute

\* a cycle has inhibited with the path active, and the signal is still up
C11_InhibitedWithSignal ==
    /\ last.op = "update" /\ last.branch = "inhibit"
    /\ ap.inhibitExecute /\ ap.pathActive /\ newPath

\* the upstream target no longer equals the held one, rounded
targetChanged(w) == ~JsRoundEq(w.ap.vnavTargetAltitude, w.env.vnavTargetAltitude)

\* the cycle comes to the test of line 142 with the path active: upstream is
\* calculating a path, the path is active and no new path is taken up first
reachesActive(w) ==
    /\ w.env.vnavCalculating
    /\ w.env.pathCalculating
    /\ w.ap.pathActive
    /\ ~w.env.newPath

C13_CoastWithoutRearming ==
    \A e \in PassedInputs :
        LET w0 == World(e)
            w == update(w0)
            held == ap.vnavTargetAltitude
        IN  /\ reachesActive(w0)
            /\ targetChanged(w0)
            /\ ~(e.vnavTargetAltitude > held + 100)
            /\ e.distanceToTod > 10
            => /\ ~w.ap.pathActive /\ ~w.ap.pathActivate
               /\ ~w.ap.pathArm /\ ~w.ap.pathArmAbove
               /\ w.sv.pathStatus # 1
               /\ w.ap.vnavTargetAltitude = held

\* C14: a cycle that finds the path active, the upstream target different from
\* the held one (rounded) and not more than 100 ft above it, and the top of
\* descent at most 1 NM ahead, ends with the upstream target held, the path
\* active and the path status ACTIVE.
C14_ContinuousDescent ==
    \A e \in PassedInputs :
        LET w0 == World(e)
            w == update(w0)
            held == ap.vnavTargetAltitude
        IN  /\ reachesActive(w0)
            /\ targetChanged(w0)
            /\ ~(e.vnavTargetAltitude > held + 100)
            /\ e.distanceToTod <= 10
            => /\ w.out.branch = "continue"
               /\ w.ap.vnavTargetAltitude = e.vnavTargetAltitude
               /\ w.ap.pathActive /\ ~w.ap.pathActivate
               /\ w.sv.pathStatus = 3

\* a cycle has gone on to the next constraint and the path is active
C14_ActiveOnNextConstraint ==
    /\ last.op = "update" /\ last.branch = "continue"
    /\ ap.pathActive /\ sv.pathStatus = 3

(***************************************************************************)
(* The altitude slot                                                       *)
(***************************************************************************)

\* C15: every update cycle runs the slot reconciliation exactly once, whichever
\* branch it takes.
C15_SlotReconciledOnce == last.op = "update" => last.slotRuns = 1

\* C16: when the slot reconciliation runs with a desired slot (1 or 2) that
\* differs from the mode selector's active slot (1, 2 or 3) it queues the request
\* for the desired slot and nothing else; with the two equal it queues nothing.
C16_RequestsDesiredSlot ==
    \A e \in SlotInputs :
        LET w == vnavAltSlotRequest(World(e))
            desired == ap.vnavAltSlot
        IN  /\ w.out.slotRuns = 1
            /\ desired = 1 /\ e.currentAltSlotIndex # 1
               => w.out.events = <<"VNAV_REQUEST_SLOT_1">>
            /\ desired = 2 /\ e.currentAltSlotIndex # 2
               => w.out.events = <<"VNAV_REQUEST_SLOT_2">>
            /\ desired = e.currentAltSlotIndex => w.out.events = <<>>

(***************************************************************************)
(* The lateral director: discontinuities, plan changes and turns           *)
(***************************************************************************)

\* C17: in every state, IN_DISCONTINUITY goes with sequencing INHIBIT, and an
\* update cycle that starts IN_DISCONTINUITY commands no heading and leaves the
\* active waypoint index as it was.
C17_DiscontinuityHoldsInhibit ==
    lnav.state = "IN_DISCONTINUITY" =>
        /\ lnav.sequencingMode = "INHIBIT"
        /\ \A e \in PlaneInputs :
               LET w == lnavUpdate(LNavWorld(e))
               IN  /\ w.out.headings = <<>>
                   /\ w.fpm.activeWaypointIndex = fpm.activeWaypointIndex

\* C18: an update cycle runs the plan-change handler exactly when the manager's
\* version differs from the stored one.  The handler, before the dispatch on the
\* state, takes the manager's plan, leaves the sequencing AUTO, leaves
\* IN_DISCONTINUITY for TRACKING and clears the discontinuity flag exactly when
\* the active waypoint does not end in a discontinuity, clears the waypoint
\* alert and stores the version, so that a cycle that follows with the version
\* unchanged does not run it again.
C18_ResyncOnVersionChange ==
    \A e \in PlaneInputs :
        LET w0 == LNavWorld(e)
            w1 == resync(w0)
            w == lnavUpdate(w0)
            changed == lnav.currentFlightPlanVersion # fpm.version
            activeWaypoint == getWaypoint(fpm, fpm.activeWaypointIndex)
            resolved == /\ lnav.state = "IN_DISCONTINUITY"
                        /\ ~(activeWaypoint.defined /\ activeWaypoint.endsInDiscontinuity)
        IN  /\ w.out.handled <=> changed
            /\ ~changed => w1 = w0
            /\ changed =>
                   /\ w1.lnav.hasPlan
                   /\ w1.lnav.sequencingMode = "AUTO"
                   /\ w1.out.resolved <=> resolved
                   /\ IF resolved
                      THEN w1.lnav.state = "TRACKING" /\ w1.lsv.inDiscontinuity = 0
                      ELSE w1.lnav.state = lnav.state /\ w1.lsv = lsv
                   /\ w1.out.set["wptAlert"] = 0
                   /\ w1.lnav.currentFlightPlanVersion = fpm.version
                   /\ w1.fpm = fpm
                   /\ w1.out.headings = <<>> /\ w1.out.dispatch = "none"
                   /\ ~resync([w1 EXCEPT !.out = LNavNoOut]).out.handled
                   /\ (/\ resolved
                       /\ activeWaypoint.defined
                       /\ ~delegateToHoldsDirector(w0, activeWaypoint)
                       => w.out.dispatch = "TRACKING")

\* an update cycle has handled a plan change that resolved the discontinuity
C18_ResolvedByPlanChange ==
    /\ llast.op = "update" /\ llast.handled /\ llast.resolved
    /\ lnav.currentFlightPlanVersion # 0
    /\ lsv.inDiscontinuity = 0

\* the heading is more than the rollout threshold away from the leg, either way
beyondRollout(e) ==
    e.angleDiffToTarget > degreesRollout \/ e.angleDiffToTarget < -degreesRollout

\* C19: an update cycle that handles TURN_COMPLETING with the heading more than
\* 15 degrees from the desired track of the new leg, to either side, stays in
\* TURN_COMPLETING and commands a turn heading; it goes to TRACKING only with the
\* heading within 15 degrees.
C19_TurnsUntilWithinRollout ==
    \A e \in PlaneInputs :
        LET w == lnavUpdate(LNavWorld(e))
        IN  w.out.dispatch = "TURN_COMPLETING" /\ ~w.out.threw
            => /\ beyondRollout(e)
                  => w.lnav.state = "TURN_COMPLETING" /\ w.out.headings = <<"turn">>
               /\ w.lnav.state = "TRACKING" => ~beyondRollout(e)

(***************************************************************************)
(* The inhibited execution phase                                           *)
(***************************************************************************)

\* lines 42-174: the cycle gets to the call of execute() at line 175
reachesExecute(w) ==
    LET w1 == constraintData(interceptInhibit(w))
        w2 == IF w.env.newPath THEN acceptNewPath(w1) ELSE w1
    IN  /\ w.env.vnavCalculating
        /\ IF w.env.pathCalculating
           THEN /\ ~(w.env.newPath /\ newPathInhibits(w1))
                /\ ~oddHigherConstraint(canPathExecute(canPathArm(w2)))
           ELSE w1.ap.constraintExists

\* lines 42-174: the director as execute() finds it at line 175
executeInput(w) ==
    LET w1 == constraintData(interceptInhibit(w))
        w2 == IF w.env.newPath THEN acceptNewPath(w1) ELSE w1
    IN  IF w.env.pathCalculating
        THEN isPathActive(Branch(canPathExecute(canPathArm(w2)), "path"))
        ELSE Branch(w1, "constraint")

\* C20: in every update cycle that gets to execute(), the cycle is execute() and
\* the slot reconciliation applied to what came before; and when execution is
\* inhibited there, execute() commands no altitude and no vertical speed, does
\* not write the path status, and leaves path active, pending activation and the
\* desired slot as they were.
C20_InhibitedExecuteEmitsNothing ==
    \A e \in PathInputs :
        LET w0 == World(e)
            wi == executeInput(w0)
            w == execute(wi)
        IN  reachesExecute(w0) =>
                /\ update(w0) = vnavAltSlotRequest(w)
                /\ wi.ap.inhibitExecute =>
                       /\ w.out.inhibited
                       /\ w.out.alt = wi.out.alt
                       /\ w.out.vs = wi.out.vs
                       /\ w.out.events = wi.out.events
                       /\ "pathStatus" \notin DOMAIN w.out.set
                       /\ w.sv.pathStatus = wi.sv.pathStatus
                       /\ w.ap.pathActive = wi.ap.pathActive
                       /\ w.ap.pathActivate = wi.ap.pathActivate
                       /\ w.ap.vnavAltSlot = wi.ap.vnavAltSlot

\* a cycle without a path calculation has run execute() with the inhibit on
C20_ExecutedWhileInhibited ==
    /\ last.op = "update" /\ last.inhibited /\ last.branch = "constraint"
    /\ ap.inhibitExecute

(***************************************************************************)
(* Armed from above                                                        *)
(***************************************************************************)

\* execute() runs uninhibited with the director armed from above, not active and
\* not about to activate
executesArmedAbove(w) ==
    LET wi == executeInput(w)
    IN  /\ reachesExecute(w)
        /\ ~wi.ap.inhibitExecute
        /\ wi.ap.pathArmAbove /\ ~wi.ap.pathArm
        /\ ~wi.ap.pathActive /\ ~wi.ap.pathActivate

executesActive(w) ==
    LET wi == executeInput(w)
    IN  reachesExecute(w) /\ ~wi.ap.inhibitExecute /\ wi.ap.pathActive

\* C22, as claimed: the desired vertical speed computed while the path is active
\* is negative for every flight-path angle above 0 and zero for the angle 0.
C22_NegativeForEveryDescent ==
    \A e \in VsInputs :
        LET w0 == World(e)
            w == update(w0)
            fpa == activeFPA(w0)
        IN  executesActive(w0) =>
                /\ fpa > 0 => w.out.set["donut"].n < 0
                /\ fpa = 0 => w.out.set["donut"].n = 0

\* C22, amended: the desired vertical speed computed while the path is active is
\* minus the ground speed times the vertical speed per knot of the angle flown;
\* it is negative for every flight-path angle above 0 at a ground speed above
\* 0, and zero when the angle or the ground speed is zero.
C22_NegativeWhenMoving ==
    \A e \in VsInputs :
        LET w0 == World(e)
            w == update(w0)
            fpa == activeFPA(w0)
            desired == desiredVerticalSpeed(e.groundSpeed, fpa)
        IN  executesActive(w0) =>
                /\ w.out.set["donut"] = Rat(desired, 10000)
                /\ fpa > 0 /\ e.groundSpeed > 0 => desired < 0
                /\ fpa = 0 \/ e.groundSpeed = 0 => desired = 0

\* a cycle has flown the active path and computed its vertical speed
C22_PathFlown ==
    /\ last.op = "update" /\ last.branch = "path" /\ ~last.inhibited
    /\ ap.pathActive /\ sv.pathStatus = 3

(***************************************************************************)
(* The lateral director: missing waypoints, runways and discontinuities    *)
(***************************************************************************)

\* C23: an update cycle of a director that holds a plan with an active waypoint
\* raises no error, whether or not the active waypoint has a previous and a next
\* waypoint, and ends in one of the three states.
C23_UpdateRaisesNoError ==
    \A e \in PlaneInputs :
        LET w0 == LNavWorld(e)
            w == lnavUpdate(w0)
            activeWaypoint == getWaypoint(fpm, fpm.activeWaypointIndex)
        IN  activeWaypoint.defined =>
                /\ ~w.out.threw
                /\ w.lnav.state \in {"TRACKING", "TURN_COMPLETING", "IN_DISCONTINUITY"}

\* C24: from the cycle that sequences onto a runway and sets INHIBIT until
\* setAutoSequencing() is called, and while the runway is the active waypoint,
\* no update cycle moves the active waypoint index or leaves the sequencing
\* other than INHIBIT.
C24_RunwayHolds ==
    llast.runwayHold /\ getWaypoint(fpm, fpm.activeWaypointIndex).isRunway =>
        /\ lnav.sequencingMode = "INHIBIT"
        /\ \A e \in PlaneInputs :
               LET w == lnavUpdate(LNavWorld(e))
               IN  /\ w.fpm.activeWaypointIndex = fpm.activeWaypointIndex
                   /\ w.lnav.sequencingMode = "INHIBIT"

\* C25: when sequenceToNextWaypoint takes effect and the current active waypoint
\* ends in a discontinuity, the state becomes IN_DISCONTINUITY, the discontinuity
\* flag is raised, sequencing becomes INHIBIT, the present true heading is
\* commanded and the plan and its active waypoint index stay as they were, also
\* when the next waypoint is a runway; an abeam TRACKING cycle that does so ends
\* in that state with that one heading command.
C25_EntersDiscontinuity ==
    \A e \in PlaneInputs :
        LET w0 == LNavWorld(e)
            w1 == resync(w0)
            currentWaypoint == getWaypoint(w1.fpm, w1.fpm.activeWaypointIndex)
            w == sequenceToNextWaypoint(w1, currentWaypoint)
            wu == lnavUpdate(w0)
        IN  /\ tookEffect(w) /\ currentWaypoint.endsInDiscontinuity =>
                /\ w.lnav.state = "IN_DISCONTINUITY"
                /\ w.lsv.inDiscontinuity = 1
                /\ w.lnav.sequencingMode = "INHIBIT"
                /\ w.out.headings = Append(w1.out.headings, "present")
                /\ w.out.setIndex = w1.out.setIndex
                /\ w.fpm = w1.fpm
                /\ w.out.seq = "discontinuity"
            /\ trackingAbeam(w0) /\ tookEffect(wu) /\ currentWaypoint.endsInDiscontinuity =>
                /\ wu.lnav.state = "IN_DISCONTINUITY"
                /\ wu.lsv.inDiscontinuity = 1
                /\ wu.lnav.sequencingMode = "INHIBIT"
                /\ wu.out.headings = <<"present">>
                /\ wu.out.setIndex = <<>>
                /\ wu.fpm = w1.fpm

\* a cycle has entered a discontinuity in front of a runway
C25_DiscontinuityBeforeRunway ==
    /\ llast.op = "update" /\ llast.seq = "discontinuity"
    /\ llast.headings = <<"present">>
    /\ lnav.state = "IN_DISCONTINUITY" /\ lnav.sequencingMode = "INHIBIT"
    /\ lsv.inDiscontinuity = 1
    /\ getWaypoint(fpm, fpm.activeWaypointIndex).endsInDiscontinuity
    /\ getWaypoint(fpm, fpm.activeWaypointIndex + 1).isRunway

\* what C26 says of a setAutoSequencing() call that starts in IN_DISCONTINUITY,
\* and of one that starts elsewhere with the active waypoint not a runway
autoSequencingSteps(w0, w) ==
    LET index == w0.fpm.activeWaypointIndex
        activeWaypoint == getWaypoint(w0.fpm, index)
    IN  /\ w0.lnav.state = "IN_DISCONTINUITY" =>
            /\ w.lnav.state = "TRACKING"
            /\ w.lsv.inDiscontinuity = 0
            /\ ~getWaypoint(w.fpm, index).endsInDiscontinuity
            /\ w.fpm.activeWaypointIndex = index + 1
            /\ w.out.setIndex = <<index + 1>>
        /\ w0.lnav.state # "IN_DISCONTINUITY" /\ ~activeWaypoint.isRunway =>
            /\ w.lnav.state = w0.lnav.state
            /\ w.fpm.activeWaypointIndex = index

\* C26: a setAutoSequencing() call always ends with sequencing AUTO; from
\* IN_DISCONTINUITY it ends in TRACKING with the flag and the discontinuity at
\* the old active waypoint cleared and the index advanced by exactly one; from
\* another state with the active waypoint not a runway it leaves state and index.
C26_AlwaysEndsAuto ==
    LET w0 == LNavWorld(planeInit)
        w == setAutoSequencing(w0)
    IN  /\ w.lnav.sequencingMode = "AUTO"
        /\ autoSequencingSteps(w0, w)

\* the cycle of w dispatches to handleTracking with the aircraft not abeam and
\* both neighbours of the active waypoint in the plan
trackingNotAbeam(w) ==
    LET w1 == resync(w)
        index == w1.fpm.activeWaypointIndex
        activeWaypoint == getWaypoint(w1.fpm, index)
    IN  /\ w1.lnav.hasPlan
        /\ activeWaypoint.defined
        /\ ~delegateToHoldsDirector(w1, activeWaypoint)
        /\ w1.lnav.state = "TRACKING"
        /\ getWaypoint(w1.fpm, index - 1).defined
        /\ getWaypoint(w1.fpm, index + 1).defined
        /\ ~w.env.abeam

\* C27: in a TRACKING cycle with the aircraft not abeam, an active waypoint
\* flagged fly-over is never sequenced on the anticipation distance; an active
\* waypoint not flagged fly-over is, when the distance to it is below the
\* anticipation distance.
C27_FlyoverOfActiveWaypoint ==
    \A e \in PlaneInputs :
        LET w0 == LNavWorld(e)
            w1 == resync(w0)
            w == lnavUpdate(w0)
            activeWaypoint == getWaypoint(w1.fpm, w1.fpm.activeWaypointIndex)
        IN  trackingNotAbeam(w0) =>
                IF activeWaypoint.isFlyover
                THEN w.out.seq = "none"
                ELSE e.distanceToActive < getAnticipationDistance(w1) =>
                         w.out.seq # "none"

\* C28: in a TRACKING cycle in which no sequencing takes effect a leg heading is
\* commanded only with the distance to the active waypoint above the minimum
\* tracking distance, and at or inside it the leg tracking still sets the
\* cross-track and desired-track outputs and commands no heading; in a TRACKING
\* cycle in which sequencing takes effect no heading of the old leg is commanded.
C28_NoOldLegHeading ==
    \A e \in PlaneInputs :
        LET w0 == LNavWorld(e)
            w == lnavUpdate(w0)
            legHeading == \E i \in DOMAIN w.out.headings : w.out.headings[i] = "leg"
        IN  trackingAbeam(w0) \/ trackingNotAbeam(w0) =>
                IF tookEffect(w)
                THEN ~legHeading
                ELSE /\ legHeading => e.distanceToActive > minimumTrackingDistance
                     /\ trackingNotAbeam(w0)
                            /\ e.distanceToActive <= minimumTrackingDistance =>
                            /\ w.out.headings = <<>>
                            /\ {"xtk", "dtk"} \subseteq DOMAIN w.out.set

(***************************************************************************)
(* The vertical director: how a path is activated                          *)
(***************************************************************************)

\* the cycle of w reaches the arming and activation checks of lines 89-139
reachesArmCheck(w) ==
    /\ w.env.vnavCalculating /\ w.env.pathCalculating
    /\ ~(w.env.newPath /\ newPathInhibits(constraintData(interceptInhibit(w))))

\* the world the activation check of lines 119-139 starts from
armChecked(w) ==
    LET w1 == constraintData(interceptInhibit(w))
    IN  canPathArm(IF w.env.newPath THEN acceptNewPath(w1) ELSE w1)

\* the activation check takes its armed-from-above branch, line 128
takesArmedAbove(w) ==
    LET wa == armChecked(w)
    IN  /\ reachesArmCheck(w)
        /\ ~(wa.ap.pathArm /\ ~wa.ap.pathActive)
        /\ wa.ap.pathArmAbove /\ ~wa.ap.pathActive

\* C29: in every update cycle whose activation check takes the armed-from-above
\* branch the altitude deviation is above 1000 ft, the arming having been
\* recomputed in that cycle, so the branch never raises the activation request;
\* every cycle that activates the path has armed from below in that cycle or
\* has continued onto the next constraint within 1 NM of a passed one.
C29_ArmedAboveNeverActivates ==
    \A e \in PathInputs :
        LET w0 == World(e)
            wa == armChecked(w0)
            wx == canPathExecute(wa)
            wi == executeInput(w0)
        IN  /\ takesArmedAbove(w0) =>
                /\ e.altDeviation > 1000
                /\ wa.out.arm = "above"
                /\ wx.ap.pathActivate = wa.ap.pathActivate
                /\ wx.ap.vnavTargetAltitude = wa.ap.vnavTargetAltitude
                /\ ~wx.ap.pathActivate
            /\ reachesExecute(w0) /\ ~wi.ap.inhibitExecute /\ wi.ap.pathActivate =>
                \/ wi.out.arm = "below" /\ wx.ap.pathArm
                \/ wi.out.branch = "continue"

\* a cycle has taken the armed-from-above branch and has not activated the path
C29_ArmedAboveWaits ==
    /\ last.op = "update" /\ last.arm = "above" /\ last.branch = "path"
    /\ ~last.inhibited
    /\ ap.pathArmAbove /\ ~ap.pathArm /\ ~ap.pathActive /\ ~ap.pathActivate
    /\ sv.pathStatus \in {1, 2}

(***************************************************************************)
(* The lateral director: the active waypoint index                         *)
(***************************************************************************)

\* C30: an update cycle moves the active waypoint index by nothing or by one,
\* with at most one index written; the plan-change handler, sequenceToNextWaypoint,
\* setAutoSequencing() and setInhibitSequencing() never lower it; an update cycle
\* of a director that holds no plan and reads an unchanged plan version changes
\* no state, writes no variable and commands nothing.
C30_IndexNeverDecreases ==
    LET index == fpm.activeWaypointIndex
        wp == LNavWorld(planeInit)
    IN  /\ \A e \in PlaneInputs :
               LET w0 == LNavWorld(e)
                   w1 == resync(w0)
                   w == lnavUpdate(w0)
                   ws == sequenceToNextWaypoint(w1, getWaypoint(w1.fpm, index))
               IN  /\ w.fpm.activeWaypointIndex \in {index, index + 1}
                   /\ Len(w.out.setIndex) <= 1
                   /\ w1.fpm = fpm
                   /\ ws.fpm.activeWaypointIndex \in {index, index + 1}
                   /\ ~lnav.hasPlan /\ lnav.currentFlightPlanVersion = fpm.version =>
                          /\ w.lnav = lnav /\ w.fpm = fpm /\ w.lsv = lsv
                          /\ w.out = LNavNoOut
        /\ setAutoSequencing(wp).fpm.activeWaypointIndex \in {index, index + 1}
        /\ setInhibitSequencing(wp).fpm = fpm

\* a cycle has sequenced and moved the active waypoint index on by one
C30_IndexAdvanced ==
    /\ llast.op = "update" /\ llast.seq \in {"next", "runway"}
    /\ ~llast.threw
    /\ lnav.hasPlan /\ lnav.state = "TURN_COMPLETING"
    /\ fpm.activeWaypointIndex \in 1 .. Len(fpm.waypoints) - 1

(***************************************************************************)
(* The vertical director: the commanded path vertical speed                *)
(***************************************************************************)

\* the path vertical speeds the cycle that ended in w has commanded, in ft/min
pathVsCommands(w) ==
    {w.out.vs[i][2] : i \in {j \in DOMAIN w.out.vs : w.out.vs[j][1] = "path"}}

\* C31: every path vertical speed an update cycle commands, with the flight
\* path angle from 0 to 6 degrees and the ground speed not negative, is a
\* multiple of 100 ft/min, is not positive and is not below the vertical speed
\* of a 6 degree descent at the cycle's ground speed; a cycle that executes
\* with the path active commands exactly one.
C31_PathVsWithinSixDegrees ==
    \A e \in VsInputs :
        LET w0 == World(e)
            w == update(w0)
            fpa == activeFPA(w0)
        IN  /\ executesActive(w0) => Cardinality(pathVsCommands(w)) = 1
            /\ fpa \in 0 .. 6 /\ e.groundSpeed >= 0 =>
                   \A v \in pathVsCommands(w) :
                       /\ v % 100 = 0
                       /\ v <= 0
                       /\ 10000 * v >= -(VsPerKnot(6) * e.groundSpeed)

\* a cycle has commanded a path vertical speed below the path with the path
\* active
C31_PathVsCommanded ==
    /\ last.op = "update" /\ last.branch = "path" /\ ~last.inhibited
    /\ ap.pathActive /\ ~ap.pathActivate
    /\ sv.pathStatus = 3
    /\ ap.vnavTargetAltitude = 4800

=============================================================================
